---- MODULE Spec2Model ----
(***************************************************************************)
(* Model of the chunking / summarization pipeline of                       *)
(* src/pdf-reader-text-image-version5.py (class APIClient) and of the      *)
(* batch run that drives it (class Application: run_task,                  *)
(* process_pdfs_thread, on_close).                                         *)
(*                                                                         *)
(* Strings are sequences of tokens.  A token is one character ("a", " ",   *)
(* "\n", ".") or one fixed literal of the source ("Error:", "--- Page"),   *)
(* counted as one unit of length.  Positions are Python's 0-based          *)
(* positions: Slice(s, a, b) is s[a:b].                                    *)
(***************************************************************************)
EXTENDS Integers, Sequences, FiniteSets, TLC

(***************************************************************************)
(* Sizes.  The two class constants of APIClient (lines 137-138: 15000 and  *)
(* 20000 characters) are scaled down to token counts a model checker can   *)
(* enumerate; the other definitions bound the inputs.  A window of five    *)
(* tokens is the smallest that can hold a page marker (two tokens) after   *)
(* the cursor and a paragraph break (two tokens) after that marker.        *)
(***************************************************************************)
MAX_CHARS_PER_CHUNK == 5

MAX_COMBINED_SUMMARY_CHARS == 16

\* longest text over the full alphabet handed to the splitter alone
MaxTextLen == 6

\* longest text over the two-token alphabet handed to the splitter alone
MaxLongLen == 13

\* longest text of full stops handed to the splitter alone
MaxPlainLen == 21

\* longest marker-free document handed to summarize_text
MaxDocLen == 12

\* most files in the folder of a batch run
MaxFiles == 3

\* most pages of a document whose pages are selected for OCR
MaxPages == 2

\* longest page list handed to PDFProcessor.process directly
MaxOcrList == 2

VARIABLES
    text,             \* the text argument
    split_pc,         \* position in _split_text_into_chunks
    current_pos,      \* the cursor of the splitter
    chunks,           \* the list of chunks built so far
    prev_pos,         \* history: the cursor at the start of the last iteration
    iterations,       \* history: iterations of the while loop so far
    slices,           \* history: the slices [from, to) cut so far
    forced,           \* history: the last iteration took the forced advance
    instruction,      \* the custom_instruction argument
    api_key,          \* APIClient.api_key
    has_callback,     \* an update_status_callback was supplied
    pc,               \* position in summarize_text
    loop_i,           \* the index i of the for loop over the chunks
    chunk_summaries,  \* the list chunk_summaries
    has_errors,       \* the flag has_errors
    calls,            \* history: the arguments of every _send_api_request call
    returns,          \* history: the value every _send_api_request call returned
    posts,            \* history: number of requests.post calls made
    status_log,       \* history: the messages handed to the callback
    returned,         \* summarize_text has returned
    result,           \* the value summarize_text returned
    raised,           \* the exception that left summarize_text, or "none"
    last_outcome,     \* history: the network behaviour met by the last request
    sleeps,           \* history: number of time.sleep calls that have ended
    running,          \* Application.running
    window,           \* the root window exists (it has not been destroyed)
    app_pc,           \* position of the worker thread in process_pdfs_thread
    pdf_files,        \* the files of the batch, each with what extraction does
    file_i,           \* the index i of the for loop over the files
    processed_count,  \* the counter processed_count
    error_count,      \* the counter error_count
    file_results,     \* history: how the attempt at each file ended
    final_msg,        \* history: the completion report, <<>> while there is none
    cancelled,        \* history: on_close was confirmed during a run
    workers,          \* history: number of worker threads that are alive
    died_at,          \* history: app_pc when the worker crashed or was killed
    died_pc,          \* history: pc when the worker crashed or was killed
    config,           \* ConfigManager.config, the settings in memory
    config_file,      \* the settings file on disk
    cfg_op,           \* history: the ConfigManager method called last
    ocr_entry,        \* history: "run_task" or, for a direct call, "process"
    ocr_enabled,      \* the 'enable OCR' box
    ocr_all_pages,    \* the 'all pages' box
    ocr_pages_var,    \* the page list typed in, as parse_ocr_pages returns it
    ocr_pages_list,   \* ocr_pages_list of run_task
    num_pages,        \* the number of pages of the document
    pages_to_ocr_arg, \* the ocr_pages argument of PDFProcessor.process
    pages_to_process, \* pages_to_process of extract_image_text
    ocr_visited,      \* history: the pages extract_image_text has loaded
    ocr_pc            \* position in the page selection

splitVars == <<text, split_pc, current_pos, chunks, prev_pos, iterations,
               slices, forced>>

sumVars == <<instruction, api_key, has_callback, pc, loop_i, chunk_summaries,
             has_errors, calls, returns, posts, status_log, returned, result,
             raised, last_outcome, sleeps>>

appVars == <<running, window, app_pc, pdf_files, file_i, processed_count,
             error_count, file_results, final_msg, cancelled, workers,
             died_at, died_pc>>

cfgVars == <<config, config_file, cfg_op>>

ocrVars == <<ocr_entry, ocr_enabled, ocr_all_pages, ocr_pages_var,
             ocr_pages_list, num_pages, pages_to_ocr_arg, pages_to_process,
             ocr_visited, ocr_pc>>

\* the selector None
NoneSelector == [none |-> TRUE, pages |-> <<>>]

\* the selector that is the list l
ListSelector(l) == [none |-> FALSE, pages |-> l]

\* no page selection is going on
OcrIdle ==
    /\ ocr_entry = "none"
    /\ ocr_enabled = FALSE
    /\ ocr_all_pages = FALSE
    /\ ocr_pages_var = <<>>
    /\ ocr_pages_list = <<>>
    /\ num_pages = 0
    /\ pages_to_ocr_arg = ListSelector(<<>>)
    /\ pages_to_process = <<>>
    /\ ocr_visited = <<>>
    /\ ocr_pc = "off"

\* what the splitter, the summarizer and the worker thread never touch
sideVars == <<cfgVars, ocrVars>>

vars == <<splitVars, sumVars, appVars, sideVars>>

---------------------------------------------------------------------------
(* ConfigManager *)

\* the settings of default_config that the model follows
ConfigKeys == {"api_key", "folder_path", "recent_folders"}

\* the folders a user may pick, all of them existing directories
Folders == {"d1", "d2", "d3"}

\* line 387, "recent[:5]": how many recent folders are kept (5 in the code)
RECENT_FOLDERS_KEPT == 2

\* lines 335-345: default_config
default_config ==
    [k \in ConfigKeys |-> IF k = "recent_folders" THEN <<>> ELSE ""]

\* a JSON object without members
NoData == [k \in {} |-> ""]

\* line 350: {**default_config, **saved_config}
Merged(d, saved) ==
    [k \in DOMAIN d \cup DOMAIN saved |->
        IF k \in DOMAIN saved THEN saved[k] ELSE d[k]]

\* load_config, lines 334-357.  A file that is absent, is not JSON or does
\* not hold a JSON object gives the defaults; the api_key of a file that
\* holds one is overwritten with "".
LoadedConfig(file) ==
    IF file.kind = "object"
    THEN [Merged(default_config, file.data) EXCEPT !["api_key"] = ""]
    ELSE default_config

\* faulty variant: the copy that is written keeps every entry
SavedKeysAll(cfg) == DOMAIN cfg

\* lines 362-364: the entries of the copy that is written
SavedKeys(cfg) == DOMAIN cfg \ {"api_key"}

\* save_config, lines 359-369: the file after the call.  open(..., "w")
\* fails on a file that cannot be written, and the failure is only printed.
SavedFile(cfg, file) ==
    IF file.writable
    THEN [kind |-> "object",
          data |-> [k \in SavedKeys(cfg) |-> cfg[k]],
          writable |-> TRUE]
    ELSE file

\* the list without the entries equal to x
Without(list, x) == SelectSeq(list, LAMBDA y : y # x)

\* lines 384-387: the recent folders after folder_path moved to the front
RecentWith(recent, folder_path) ==
    LET moved == <<folder_path>> \o Without(recent, folder_path)
    IN  SubSeq(moved, 1, IF Len(moved) < RECENT_FOLDERS_KEPT
                         THEN Len(moved)
                         ELSE RECENT_FOLDERS_KEPT)

\* run_task, lines 853-882, on the settings: the key is stored in memory
\* (853), the folder is put first among the recent ones (880) and becomes
\* the folder_path (882)
RunTaskConfig(cfg, key, folder_path) ==
    [cfg EXCEPT !["api_key"] = key,
                !["recent_folders"] = RecentWith(@, folder_path),
                !["folder_path"] = folder_path]

\* no settings file exists
AbsentFile == [kind |-> "absent", data |-> NoData, writable |-> TRUE]

\* the ConfigManager of an application started without a settings file
CfgIdle ==
    /\ config_file = AbsentFile
    /\ config = LoadedConfig(AbsentFile)
    /\ cfg_op = "load_config"

\* the application before any batch run
AppIdle ==
    /\ running = FALSE
    /\ window = TRUE
    /\ app_pc = "none"
    /\ pdf_files = <<>>
    /\ file_i = 0
    /\ processed_count = 0
    /\ error_count = 0
    /\ file_results = <<>>
    /\ final_msg = <<>>
    /\ cancelled = FALSE
    /\ workers = 0
    /\ died_at = "none"
    /\ died_pc = "none"
    /\ CfgIdle
    /\ OcrIdle

---------------------------------------------------------------------------
(* Python string operations on token sequences *)

Min(a, b) == IF a < b THEN a ELSE b

SetMax(S) == CHOOSE x \in S : \A y \in S : y <= x

SetMin(S) == CHOOSE x \in S : \A y \in S : x <= y

\* faulty variant: the slice stops one position early
SliceOneShort(s, a, b) == SubSeq(s, a + 1, b - 1)

\* s[a:b]
Slice(s, a, b) == SubSeq(s, a + 1, b)

\* the characters str.strip() removes
Whitespace == {" ", "\n"}

\* faulty variant: the text is not trimmed
StripNothing(s) == s

\* s.strip()
Strip(s) ==
    LET keep == {i \in 1..Len(s) : s[i] \notin Whitespace}
    IN  IF keep = {} THEN <<>> ELSE SubSeq(s, SetMin(keep), SetMax(keep))

\* s.rfind(sub, start, end): the highest position of sub inside s[start:end]
RFind(s, sub, start, end) ==
    LET found == {i \in start..(Min(end, Len(s)) - Len(sub)) :
                      SubSeq(s, i + 1, i + Len(sub)) = sub}
    IN  IF found = {} THEN -1 ELSE SetMax(found)

\* s.startswith(p)
StartsWith(s, p) == Len(s) >= Len(p) /\ SubSeq(s, 1, Len(p)) = p

---------------------------------------------------------------------------
(* APIClient._split_text_into_chunks *)

PageMarker == <<"\n", "--- Page">>

ParaBreak == <<"\n", "\n">>

SentenceSeps == << <<".", " ">>, <<"!", " ">>, <<"?", " ">>,
                   <<".", "\n">>, <<"!", "\n">>, <<"?", "\n">> >>

\* the for loop over the separators, from separator k on
RECURSIVE SentenceBreakFrom(_, _, _, _, _)
SentenceBreakFrom(s, cur, end, k, sentence_break) ==
    IF k > Len(SentenceSeps) THEN sentence_break
    ELSE LET found == RFind(s, SentenceSeps[k], cur, end)
         IN  SentenceBreakFrom(s, cur, end, k + 1,
                 IF found > cur /\ found > sentence_break
                 THEN found + 1 ELSE sentence_break)

\* faulty variant: the first kind of separator found in the window decides
SentenceBreakFirstKind(s, cur, end) ==
    LET kinds == {k \in 1..Len(SentenceSeps) :
                     RFind(s, SentenceSeps[k], cur, end) > cur}
    IN  IF kinds = {} THEN -1
        ELSE RFind(s, SentenceSeps[SetMin(kinds)], cur, end) + 1

\* lines 166-170: sentence_break after the loop over the separators
SentenceBreak(s, cur, end) == SentenceBreakFrom(s, cur, end, 1, -1)

\* best_split after the page-break and paragraph-break tests
StructuralSplit(s, cur, end) ==
    LET page_break == RFind(s, PageMarker, cur, end)
        after_page == IF page_break > cur THEN page_break ELSE -1
        para_break == RFind(s, ParaBreak, cur, end)
    IN  IF para_break > cur /\ para_break > after_page
        THEN para_break + 2 ELSE after_page

\* best_split at line 173
BestSplit(s, cur, end) ==
    LET structural == StructuralSplit(s, cur, end)
    IN  IF structural = -1
        THEN LET sentence_break == SentenceBreak(s, cur, end)
             IN  IF sentence_break > cur THEN sentence_break ELSE -1
        ELSE structural

EndPos(s, cur) == Min(cur + MAX_CHARS_PER_CHUNK, Len(s))

\* split_pos at line 177
SplitPos(s, cur) ==
    LET end_pos == EndPos(s, cur)
    IN  IF end_pos < Len(s) /\ BestSplit(s, cur, end_pos) > cur
        THEN BestSplit(s, cur, end_pos) ELSE end_pos

\* "if chunk: chunks.append(chunk)"
AppendChunk(cs, chunk) == IF chunk # <<>> THEN Append(cs, chunk) ELSE cs

\* faulty variant: the forced advance is taken only when the cursor went backwards
StuckTestStrict(split_pos, cur, text_len) == split_pos < cur /\ cur < text_len

\* the test that guards the forced advance (line 185), evaluated after
\* current_pos has been assigned split_pos at line 180
StuckTest(split_pos, cur, text_len) == split_pos <= cur /\ cur < text_len

\* lines 145-146: the text fits one chunk, or is empty
SplitShort ==
    /\ split_pc = "entry"
    /\ (text = <<>> \/ Len(text) <= MAX_CHARS_PER_CHUNK)
    /\ chunks' = IF text # <<>> THEN <<text>> ELSE <<>>
    /\ slices' = IF text # <<>> THEN << <<0, Len(text)>> >> ELSE <<>>
    /\ split_pc' = "returned"
    /\ UNCHANGED <<text, current_pos, prev_pos, iterations, forced>>
    /\ UNCHANGED sumVars
    /\ UNCHANGED <<appVars, sideVars>>

\* lines 148-150
SplitEnter ==
    /\ split_pc = "entry"
    /\ ~(text = <<>> \/ Len(text) <= MAX_CHARS_PER_CHUNK)
    /\ chunks' = <<>>
    /\ current_pos' = 0
    /\ split_pc' = "loop"
    /\ UNCHANGED <<text, prev_pos, iterations, slices, forced>>
    /\ UNCHANGED sumVars
    /\ UNCHANGED <<appVars, sideVars>>

\* one iteration of the while loop, lines 151-191
SplitIteration ==
    /\ split_pc = "loop"
    /\ current_pos < Len(text)
    /\ LET text_len == Len(text)
           end_pos == EndPos(text, current_pos)
           split_pos == SplitPos(text, current_pos)
           chunk == Strip(Slice(text, current_pos, split_pos))
           chunks1 == AppendChunk(chunks, chunk)
           pos1 == split_pos
           break == (pos1 = end_pos /\ end_pos = text_len) \/ pos1 >= text_len
           stuck == ~break /\ StuckTest(split_pos, pos1, text_len)
           force_end == Min(pos1 + MAX_CHARS_PER_CHUNK, text_len)
           forced_chunk == Strip(Slice(text, pos1, force_end))
       IN  /\ chunks' = IF stuck THEN AppendChunk(chunks1, forced_chunk)
                        ELSE chunks1
           /\ current_pos' = IF stuck THEN force_end ELSE pos1
           /\ slices' = IF stuck
                        THEN slices \o << <<current_pos, split_pos>>,
                                          <<pos1, force_end>> >>
                        ELSE Append(slices, <<current_pos, split_pos>>)
           /\ forced' = stuck
           /\ split_pc' = IF break THEN "filter" ELSE "loop"
    /\ prev_pos' = current_pos
    /\ iterations' = iterations + 1
    /\ UNCHANGED text
    /\ UNCHANGED sumVars
    /\ UNCHANGED <<appVars, sideVars>>

\* the loop condition fails: fall out of the while loop
SplitLoopExit ==
    /\ split_pc = "loop"
    /\ ~(current_pos < Len(text))
    /\ split_pc' = "filter"
    /\ UNCHANGED <<text, current_pos, chunks, prev_pos, iterations, slices,
                   forced>>
    /\ UNCHANGED sumVars
    /\ UNCHANGED <<appVars, sideVars>>

\* line 194: return [c for c in chunks if c]
SplitReturn ==
    /\ split_pc = "filter"
    /\ chunks' = SelectSeq(chunks, LAMBDA c : c # <<>>)
    /\ split_pc' = "returned"
    /\ UNCHANGED <<text, current_pos, prev_pos, iterations, slices, forced>>
    /\ UNCHANGED sumVars
    /\ UNCHANGED <<appVars, sideVars>>

SplitNext == SplitShort \/ SplitEnter \/ SplitIteration \/ SplitLoopExit
                 \/ SplitReturn

---------------------------------------------------------------------------
(* APIClient._send_api_request *)

ErrorPrefix == <<"Error:">>

\* an error-tagged string "Error: <message><detail>"
Err(message, detail) == <<"Error:", " ", message>> \o detail

\* full_prompt, line 205
FullPrompt(prompt_content, context_info) ==
    Strip(context_info \o <<"\n", "\n">> \o prompt_content)

\* The classes an exception is an instance of.  JSONDecodeError is the one
\* response.json() raises (requests.exceptions.JSONDecodeError, a
\* RequestException and a ValueError).
Bases(exc) ==
    CASE exc = "Timeout" -> {"Timeout", "RequestException", "Exception"}
      [] exc = "HTTPError" -> {"HTTPError", "RequestException", "Exception"}
      [] exc = "ConnectionError" ->
             {"ConnectionError", "RequestException", "Exception"}
      [] exc = "JSONDecodeError" ->
             {"JSONDecodeError", "RequestException", "ValueError", "Exception"}
      [] OTHER -> {exc, "Exception"}

Finishes == {"stop", "length", "content_filter"}

\* faulty variant: the finish_reason of a response without content is not
\* tested; every such response is reported as empty content
TryBodyFinishUnread(outcome) ==
    CASE outcome.kind = "timeout" -> [kind |-> "raise", value |-> <<"Timeout">>]
      [] outcome.kind = "connection" ->
             [kind |-> "raise", value |-> <<"ConnectionError">>]
      [] outcome.kind \in {"http_error_json_body", "http_error_text_body"} ->
             [kind |-> "raise", value |-> <<"HTTPError">>]
      [] outcome.kind = "bad_json" ->
             [kind |-> "raise", value |-> <<"JSONDecodeError">>]
      [] outcome.kind = "no_choices" ->
             [kind |-> "return",
              value |-> Err("Unexpected API response format.", <<" ", "Data">>)]
      [] outcome.kind = "choices_not_list" ->
             [kind |-> "raise", value |-> <<"TypeError">>]
      [] outcome.kind \in {"message_null", "content_not_str"} ->
             [kind |-> "raise", value |-> <<"AttributeError">>]
      [] outcome.kind = "content" /\ outcome.content # <<>> ->
             [kind |-> "return", value |-> Strip(outcome.content)]
      [] OTHER ->
             [kind |-> "return",
              value |-> Err("API returned empty content",
                            <<" ", "(Finish Reason: ", outcome.finish, ")">>)]

\* what the try block does with one behaviour of the network, lines 214-239:
\* it returns a string or raises
TryBody(outcome) ==
    CASE outcome.kind = "timeout" -> [kind |-> "raise", value |-> <<"Timeout">>]
      [] outcome.kind = "connection" ->
             [kind |-> "raise", value |-> <<"ConnectionError">>]
      [] outcome.kind \in {"http_error_json_body", "http_error_text_body"} ->
             [kind |-> "raise", value |-> <<"HTTPError">>]
      [] outcome.kind = "bad_json" ->
             [kind |-> "raise", value |-> <<"JSONDecodeError">>]
      [] outcome.kind = "no_choices" ->
             [kind |-> "return",
              value |-> Err("Unexpected API response format.", <<" ", "Data">>)]
      [] outcome.kind = "choices_not_list" ->
             [kind |-> "raise", value |-> <<"TypeError">>]
      [] outcome.kind = "message_null" ->
             [kind |-> "raise", value |-> <<"AttributeError">>]
      [] outcome.kind = "content_not_str" ->
             [kind |-> "raise", value |-> <<"AttributeError">>]
      [] outcome.kind = "content" /\ outcome.content # <<>> ->
             [kind |-> "return", value |-> Strip(outcome.content)]
      [] outcome.kind = "content" /\ outcome.content = <<>>
             /\ outcome.finish = "content_filter" ->
             [kind |-> "return",
              value |-> Err("API response filtered due to content policy.",
                            <<>>)]
      [] outcome.kind = "content" /\ outcome.content = <<>>
             /\ outcome.finish = "length" ->
             [kind |-> "return",
              value |-> Err("API response truncated due to length limits.",
                            <<>>)]
      [] OTHER ->
             [kind |-> "return",
              value |-> Err("API returned empty content",
                            <<" ", "(Finish Reason: ", outcome.finish, ")">>)]

\* faulty variant: the last, catch-all except clause is missing
HandlersWithoutCatchAll ==
    << [catches |-> {"Timeout"}, message |-> "Request timed out."],
       [catches |-> {"HTTPError"}, message |-> "HTTP Error:"],
       [catches |-> {"RequestException"},
        message |-> "Network or Request Error:"],
       [catches |-> {"KeyError", "ValueError", "AttributeError"},
        message |-> "Could not parse API response:"] >>

\* faulty variant: the clause for RequestException stands before the clauses
\* for its subclasses Timeout and HTTPError
HandlersGenericFirst ==
    << [catches |-> {"RequestException"},
        message |-> "Network or Request Error:"],
       [catches |-> {"Timeout"}, message |-> "Request timed out."],
       [catches |-> {"HTTPError"}, message |-> "HTTP Error:"],
       [catches |-> {"KeyError", "ValueError", "AttributeError"},
        message |-> "Could not parse API response:"],
       [catches |-> {"Exception"},
        message |-> "An unexpected error occurred:"] >>

\* the except clauses in their order, lines 241-258: the classes each one
\* catches and the message of the string it returns
Handlers ==
    << [catches |-> {"Timeout"}, message |-> "Request timed out."],
       [catches |-> {"HTTPError"}, message |-> "HTTP Error:"],
       [catches |-> {"RequestException"},
        message |-> "Network or Request Error:"],
       [catches |-> {"KeyError", "ValueError", "AttributeError"},
        message |-> "Could not parse API response:"],
       [catches |-> {"Exception"},
        message |-> "An unexpected error occurred:"] >>

\* the first except clause that catches exc, 0 when none does
FirstHandler(exc) ==
    LET matching == {k \in 1..Len(Handlers) :
                        Handlers[k].catches \cap Bases(exc) # {}}
    IN  IF matching = {} THEN 0 ELSE SetMin(matching)

\* the detail an except clause puts after its message.  In the HTTPError
\* clause (lines 244-249) err.response.json() returns the body or raises
\* json.JSONDecodeError, which the inner except clause catches.
HandlerDetail(k, exc, outcome) ==
    CASE Handlers[k].message = "Request timed out." -> <<>>
      [] Handlers[k].message = "HTTP Error:" ->
             <<" ", "Status Code", ",", " ", "Response:", " ",
               IF outcome.kind = "http_error_json_body" THEN "json body"
               ELSE "text body">>
      [] OTHER -> <<" ", exc>>

\* _send_api_request with a credential, for one behaviour of the network
TryRequest(outcome) ==
    LET body == TryBody(outcome)
        exc == body.value[1]
        k == FirstHandler(exc)
    IN  IF body.kind = "return" THEN body
        ELSE IF k = 0 THEN body
        ELSE [kind |-> "return",
              value |-> Err(Handlers[k].message, HandlerDetail(k, exc, outcome))]

\* _send_api_request, lines 196-258
SendApiRequest(key, outcome) ==
    IF key = ""
    THEN [kind |-> "return",
          value |-> Err("API Key not provided to APIClient.", <<>>)]
    ELSE TryRequest(outcome)

\* faulty variant: the request is sent whether or not there is a credential
PostsOfAlways(key) == 1

\* number of requests.post calls one _send_api_request call makes
PostsOf(key) == IF key = "" THEN 0 ELSE 1

---------------------------------------------------------------------------
(* APIClient.summarize_text *)

\* sep.join(ss)
RECURSIVE Join(_, _)
Join(sep, ss) ==
    IF ss = <<>> THEN <<>>
    ELSE IF Len(ss) = 1 THEN ss[1]
    ELSE ss[1] \o sep \o Join(sep, Tail(ss))

\* faulty variant: only the empty text is rejected
NoTextEmptyOnly(t) == t = <<>>

\* "not text or not text.strip()", line 262
NoText(t) == t = <<>> \/ Strip(t) = <<>>

\* faulty variant: only the latest message is kept, as on a status label
NotifyLatest(log, cb, message) == IF cb THEN <<message>> ELSE log

\* the callback, when one was supplied, is handed message and returns
Notify(log, cb, message) == IF cb THEN Append(log, message) ELSE log

\* faulty variant: the instruction is left out of the prompt
SinglePromptWithoutInstruction(instr, chunk) ==
    <<"Please summarize the following text:", "\n", "\n">> \o chunk

\* line 275
SinglePrompt(instr, chunk) ==
    instr \o <<"\n", "\n", "Please summarize the following text:",
               "\n", "\n">> \o chunk

\* line 287
ContextInfo(chunk_num, num_chunks) ==
    <<"You are summarizing part", " ", ToString(chunk_num), " ", "of", " ",
      ToString(num_chunks), " ", "from a larger document.">>

\* line 288
ChunkPrompt(instr, chunk) ==
    instr \o <<"\n", "\n", "Please summarize this section of the document:",
               "\n", "\n">> \o chunk

\* faulty variant: the marker carries the 0-based loop index
ErrorMarkerZeroBased(chunk_num, chunk_summary) ==
    <<"[Error summarizing chunk", " ", ToString(chunk_num - 1), ":", " ">>
        \o chunk_summary \o <<"]">>

\* line 294
ErrorMarker(chunk_num, chunk_summary) ==
    <<"[Error summarizing chunk", " ", ToString(chunk_num), ":", " ">>
        \o chunk_summary \o <<"]">>

\* lines 291-297: the entry appended to chunk_summaries
SummaryEntry(chunk_num, chunk_summary) ==
    IF StartsWith(chunk_summary, ErrorPrefix)
    THEN ErrorMarker(chunk_num, chunk_summary)
    ELSE chunk_summary

\* faulty variant: a failed chunk is logged but not recorded
RecordSummaryDropsFailures(summaries, chunk_num, chunk_summary) ==
    IF chunk_summary # <<>> /\ chunk_summary[1] = "Error:" THEN summaries
    ELSE Append(summaries, chunk_summary)

\* lines 291-297: the list after the result of chunk chunk_num is recorded
RecordSummary(summaries, chunk_num, chunk_summary) ==
    Append(summaries, SummaryEntry(chunk_num, chunk_summary))

\* line 304
SummarySeparator == <<"\n", "\n", "---", "\n", "\n">>

CombinedSummaries(summaries) == Join(SummarySeparator, summaries)

\* faulty variant: chunk errors do not stop the synthesis
SkipSynthesisIgnoresErrors(combined, errors) ==
    Len(combined) > MAX_COMBINED_SUMMARY_CHARS

\* faulty variant: the length of the combined summaries does not stop the synthesis
SkipSynthesisIgnoresLength(combined, errors) == errors

\* line 307: synthesis is skipped
SkipSynthesis(combined, errors) ==
    Len(combined) > MAX_COMBINED_SUMMARY_CHARS \/ errors

\* line 308: the notice put before the combined summaries when synthesis is
\* skipped because the combined text is too long (too_long) or because a
\* chunk failed (errors)
SkipNotice(too_long, errors) ==
    <<"--- Combined Section Summaries (Final Synthesis Skipped Due to Length or Chunk Errors) ---",
      "\n", "\n">>

\* lines 314-320
FinalPrompt(instr, combined) ==
    <<"The following are summaries of consecutive sections of a document. Synthesize them",
      "\n", "\n", "The original high-level instruction for the summary was: '">>
        \o instr
        \o <<"'", "\n", "\n",
             "--- Individual Section Summaries to Combine ---", "\n">>
        \o combined

\* the message of lines 277 and 322
ReceivedMessage(ok_message, summary) ==
    IF ~StartsWith(summary, ErrorPrefix) THEN <<ok_message>> ELSE summary

Call(prompt_content, context_info) ==
    [prompt |-> prompt_content, context |-> context_info]

\* the behaviours of the network and of the remote endpoint for one request
Contents ==
    {<<>>, <<" ">>, <<"s">>, <<" ", "s", "\n">>, <<"s", "s", "s", "s", "s", "s", "s">>,
     <<"Error:", " ", "s">>}

Outcomes ==
    {[kind |-> k, content |-> <<>>, finish |-> "stop"] :
        k \in {"timeout", "connection", "http_error_json_body",
               "http_error_text_body", "bad_json", "no_choices",
               "choices_not_list", "message_null", "content_not_str"}}
    \cup [kind : {"content"}, content : Contents, finish : Finishes]

\* no request has been sent: the value of last_outcome before the first
\* request, and after a call that returned at line 199
NoRequest == [kind |-> "no_request", content |-> <<>>, finish |-> "stop"]

\* the behaviours one _send_api_request call can meet: without a credential
\* it returns before it sends anything
OutcomesOf(key) == IF key = "" THEN {NoRequest} ELSE Outcomes

\* lines 262-263
SummarizeNoText ==
    /\ pc = "entry"
    /\ NoText(text)
    /\ result' = Err("No text provided to summarize.", <<>>)
    /\ returned' = TRUE
    /\ pc' = "done"
    /\ UNCHANGED <<splitVars, instruction, api_key, has_callback, loop_i,
                   chunk_summaries, has_errors, calls, returns, posts,
                   status_log, raised>>
    /\ UNCHANGED <<last_outcome, sleeps>>
    /\ UNCHANGED <<appVars, sideVars>>

\* lines 265-266: the splitter is called
SummarizeSplit ==
    /\ pc = "entry"
    /\ ~NoText(text)
    /\ status_log' = Notify(status_log, has_callback,
                            <<"Splitting text into chunks...">>)
    /\ split_pc' = "entry"
    /\ pc' = "splitting"
    /\ UNCHANGED <<text, current_pos, chunks, prev_pos, iterations, slices,
                   forced, instruction, api_key, has_callback, loop_i,
                   chunk_summaries, has_errors, calls, returns, posts,
                   returned, result, raised>>
    /\ UNCHANGED <<last_outcome, sleeps>>
    /\ UNCHANGED <<appVars, sideVars>>

\* lines 267-271: the splitter has returned
SummarizeCountChunks ==
    /\ pc = "splitting"
    /\ split_pc = "returned"
    /\ IF Len(chunks) = 0
       THEN /\ result' =
                  Err("Text resulted in zero valid chunks after splitting.", <<>>)
            /\ returned' = TRUE
            /\ pc' = "done"
            /\ UNCHANGED status_log
       ELSE /\ status_log' = Notify(status_log, has_callback,
                <<"Text split into", " ", ToString(Len(chunks)), " ", "chunk(s).">>)
            /\ pc' = "dispatch"
            /\ UNCHANGED <<result, returned>>
    /\ UNCHANGED <<splitVars, instruction, api_key, has_callback, loop_i,
                   chunk_summaries, has_errors, calls, returns, posts, raised>>
    /\ UNCHANGED <<last_outcome, sleeps>>
    /\ UNCHANGED <<appVars, sideVars>>

\* lines 273-276: the request for the only chunk is issued
SingleChunkCall ==
    /\ pc = "dispatch"
    /\ Len(chunks) = 1
    /\ status_log' = Notify(status_log, has_callback,
                            <<"Summarizing single chunk...">>)
    /\ calls' = Append(calls, Call(SinglePrompt(instruction, chunks[1]), <<>>))
    /\ posts' = posts + PostsOf(api_key)
    /\ pc' = "single_wait"
    /\ UNCHANGED <<splitVars, instruction, api_key, has_callback, loop_i,
                   chunk_summaries, has_errors, returns, returned, result,
                   raised>>
    /\ UNCHANGED <<last_outcome, sleeps>>
    /\ UNCHANGED <<appVars, sideVars>>

\* lines 276-278: the request for the only chunk ends
SingleChunkResponse ==
    /\ pc = "single_wait"
    /\ \E outcome \in OutcomesOf(api_key) :
         LET r == SendApiRequest(api_key, outcome)
         IN  IF r.kind = "raise"
             THEN /\ raised' = r.value[1]
                  /\ last_outcome' = outcome
                  /\ UNCHANGED <<returns, status_log, result, returned>>
             ELSE /\ returns' = Append(returns, r.value)
                  /\ status_log' = Notify(status_log, has_callback,
                         ReceivedMessage("Summary received.", r.value))
                  /\ result' = r.value
                  /\ returned' = TRUE
                  /\ last_outcome' = outcome
                  /\ UNCHANGED raised
    /\ pc' = "done"
    /\ UNCHANGED <<splitVars, instruction, api_key, has_callback, loop_i,
                   chunk_summaries, has_errors, calls, posts>>
    /\ UNCHANGED sleeps
    /\ UNCHANGED <<appVars, sideVars>>

\* lines 281-282
BeginChunkLoop ==
    /\ pc = "dispatch"
    /\ Len(chunks) > 1
    /\ chunk_summaries' = <<>>
    /\ has_errors' = FALSE
    /\ loop_i' = 0
    /\ pc' = "chunk_call"
    /\ UNCHANGED <<splitVars, instruction, api_key, has_callback, calls,
                   returns, posts, status_log, returned, result, raised>>
    /\ UNCHANGED <<last_outcome, sleeps>>
    /\ UNCHANGED <<appVars, sideVars>>

\* lines 283-289: the request for chunk i is issued
ChunkCall ==
    /\ pc = "chunk_call"
    /\ LET chunk_num == loop_i + 1
           num_chunks == Len(chunks)
       IN  /\ status_log' = Notify(status_log, has_callback,
                  <<"Summarizing chunk", " ", ToString(chunk_num), "/",
                    ToString(num_chunks), "...">>)
           /\ calls' = Append(calls,
                  Call(ChunkPrompt(instruction, chunks[chunk_num]),
                       ContextInfo(chunk_num, num_chunks)))
    /\ posts' = posts + PostsOf(api_key)
    /\ pc' = "chunk_wait"
    /\ UNCHANGED <<splitVars, instruction, api_key, has_callback, loop_i,
                   chunk_summaries, has_errors, returns, returned, result,
                   raised>>
    /\ UNCHANGED <<last_outcome, sleeps>>
    /\ UNCHANGED <<appVars, sideVars>>

\* lines 289-297: the request for chunk i ends and its result is recorded
ChunkResponse ==
    /\ pc = "chunk_wait"
    /\ \E outcome \in OutcomesOf(api_key) :
         LET r == SendApiRequest(api_key, outcome)
         IN  IF r.kind = "raise"
             THEN /\ raised' = r.value[1]
                  /\ last_outcome' = outcome
                  /\ pc' = "done"
                  /\ UNCHANGED <<returns, chunk_summaries, has_errors>>
             ELSE /\ returns' = Append(returns, r.value)
                  /\ chunk_summaries' =
                         RecordSummary(chunk_summaries, loop_i + 1, r.value)
                  /\ has_errors' =
                         (has_errors \/ StartsWith(r.value, ErrorPrefix))
                  /\ pc' = "sleep"
                  /\ last_outcome' = outcome
                  /\ UNCHANGED raised
    /\ UNCHANGED <<splitVars, instruction, api_key, has_callback, loop_i,
                   calls, posts, status_log, returned, result>>
    /\ UNCHANGED sleeps
    /\ UNCHANGED <<appVars, sideVars>>

\* faulty variant: the loop goes on to the next chunk without the delay
ChunkLoopWithoutDelay ==
    /\ pc = "sleep"
    /\ loop_i' = loop_i + 1
    /\ pc' = IF loop_i + 1 < Len(chunks) THEN "chunk_call" ELSE "combine"
    /\ UNCHANGED <<splitVars, instruction, api_key, has_callback,
                   chunk_summaries, has_errors, calls, returns, posts,
                   status_log, returned, result, raised, last_outcome, sleeps>>
    /\ UNCHANGED <<appVars, sideVars>>

\* line 298: the delay ends; the loop goes on to the next chunk or ends
ChunkSleep ==
    /\ pc = "sleep"
    /\ loop_i' = loop_i + 1
    /\ pc' = IF loop_i + 1 < Len(chunks) THEN "chunk_call" ELSE "combine"
    /\ UNCHANGED <<splitVars, instruction, api_key, has_callback,
                   chunk_summaries, has_errors, calls, returns, posts,
                   status_log, returned, result, raised>>
    /\ UNCHANGED last_outcome
    /\ sleeps' = sleeps + 1
    /\ UNCHANGED <<appVars, sideVars>>

\* lines 300-310: no summary at all, or synthesis is skipped
CombineSkip ==
    /\ pc = "combine"
    /\ LET combined == CombinedSummaries(chunk_summaries)
       IN  IF chunk_summaries = <<>>
           THEN /\ result' =
                      Err("Failed to get summaries for any chunk.", <<>>)
                /\ UNCHANGED status_log
           ELSE /\ SkipSynthesis(combined, has_errors)
                /\ status_log' = Notify(status_log, has_callback,
                       <<"Combined summaries too long or errors occurred. Returning combined summaries.">>)
                /\ result' =
                       SkipNotice(Len(combined) > MAX_COMBINED_SUMMARY_CHARS,
                                  has_errors) \o combined
    /\ returned' = TRUE
    /\ pc' = "done"
    /\ UNCHANGED <<splitVars, instruction, api_key, has_callback, loop_i,
                   chunk_summaries, has_errors, calls, returns, posts, raised>>
    /\ UNCHANGED <<last_outcome, sleeps>>
    /\ UNCHANGED <<appVars, sideVars>>

\* lines 311-321: the synthesis request is issued
SynthesisCall ==
    /\ pc = "combine"
    /\ chunk_summaries # <<>>
    /\ ~SkipSynthesis(CombinedSummaries(chunk_summaries), has_errors)
    /\ status_log' = Notify(status_log, has_callback,
                            <<"Combining chunk summaries for final result...">>)
    /\ calls' = Append(calls,
           Call(FinalPrompt(instruction, CombinedSummaries(chunk_summaries)),
                <<>>))
    /\ posts' = posts + PostsOf(api_key)
    /\ pc' = "synth_wait"
    /\ UNCHANGED <<splitVars, instruction, api_key, has_callback, loop_i,
                   chunk_summaries, has_errors, returns, returned, result,
                   raised>>
    /\ UNCHANGED <<last_outcome, sleeps>>
    /\ UNCHANGED <<appVars, sideVars>>

\* lines 321-323: the synthesis request ends
SynthesisResponse ==
    /\ pc = "synth_wait"
    /\ \E outcome \in OutcomesOf(api_key) :
         LET r == SendApiRequest(api_key, outcome)
         IN  IF r.kind = "raise"
             THEN /\ raised' = r.value[1]
                  /\ last_outcome' = outcome
                  /\ UNCHANGED <<returns, status_log, result, returned>>
             ELSE /\ returns' = Append(returns, r.value)
                  /\ status_log' = Notify(status_log, has_callback,
                         ReceivedMessage("Final summary received.", r.value))
                  /\ result' = r.value
                  /\ returned' = TRUE
                  /\ last_outcome' = outcome
                  /\ UNCHANGED raised
    /\ pc' = "done"
    /\ UNCHANGED <<splitVars, instruction, api_key, has_callback, loop_i,
                   chunk_summaries, has_errors, calls, posts>>
    /\ UNCHANGED sleeps
    /\ UNCHANGED <<appVars, sideVars>>

SummarizeNext ==
    \/ SummarizeNoText \/ SummarizeSplit \/ SummarizeCountChunks
    \/ SingleChunkCall \/ SingleChunkResponse
    \/ BeginChunkLoop \/ ChunkCall \/ ChunkResponse \/ ChunkSleep
    \/ CombineSkip \/ SynthesisCall \/ SynthesisResponse

---------------------------------------------------------------------------
(* One invocation of summarize_text *)

\* a document of n tokens without any marker
Doc(n) == [k \in 1..n |-> "a"]

\* the texts longer than a chunk that hold one non-whitespace token
SparseTexts ==
    {[k \in 1..n |-> IF k = j THEN "a" ELSE w] :
        n \in (MAX_CHARS_PER_CHUNK + 1)..(MAX_CHARS_PER_CHUNK + 2),
        j \in 1..(MAX_CHARS_PER_CHUNK + 2), w \in Whitespace}

SampleTexts ==
    {Doc(n) : n \in 0..MaxDocLen}
    \cup SparseTexts
    \cup { <<" ">>, <<"\n", " ", "\n", " ", "\n", " ">>, <<" ", "a", " ">>,
           <<"a", ".", " ", "a", "\n", "\n", "a">> }

Instructions == { <<>>, <<"Summarize briefly">> }

ApiKeys == {"", "sk"}

Init ==
    /\ text \in SampleTexts
    /\ split_pc = "idle"
    /\ current_pos = 0
    /\ chunks = <<>>
    /\ prev_pos = 0
    /\ iterations = 0
    /\ slices = <<>>
    /\ forced = FALSE
    /\ instruction \in Instructions
    /\ api_key \in ApiKeys
    /\ has_callback \in BOOLEAN
    /\ pc = "entry"
    /\ loop_i = 0
    /\ chunk_summaries = <<>>
    /\ has_errors = FALSE
    /\ calls = <<>>
    /\ returns = <<>>
    /\ posts = 0
    /\ status_log = <<>>
    /\ returned = FALSE
    /\ result = <<>>
    /\ raised = "none"
    /\ last_outcome = NoRequest
    /\ sleeps = 0
    /\ AppIdle

Next == SummarizeNext \/ SplitNext

Spec == Init /\ [][Next]_vars

---------------------------------------------------------------------------
(* The splitter alone, on every text of the bounded input sets *)

Chars == {"a", " ", "\n", ".", "--- Page"}

LongChars == {".", "\n"}

\* the sentence punctuation and a blank
PunctChars == {".", "!", "?", " "}

TextsOver(alphabet, n) == UNION {[1..k -> alphabet] : k \in 0..n}

SplitTexts ==
    TextsOver(Chars, MaxTextLen) \cup TextsOver(LongChars, MaxLongLen)
        \cup TextsOver({"."}, MaxPlainLen)
        \cup TextsOver(PunctChars, MaxTextLen)

SplitInit ==
    /\ text \in SplitTexts
    /\ split_pc = "entry"
    /\ current_pos = 0
    /\ chunks = <<>>
    /\ prev_pos = 0
    /\ iterations = 0
    /\ slices = <<>>
    /\ forced = FALSE
    /\ instruction = <<>>
    /\ api_key = ""
    /\ has_callback = FALSE
    /\ pc = "off"
    /\ loop_i = 0
    /\ chunk_summaries = <<>>
    /\ has_errors = FALSE
    /\ calls = <<>>
    /\ returns = <<>>
    /\ posts = 0
    /\ status_log = <<>>
    /\ returned = FALSE
    /\ result = <<>>
    /\ raised = "none"
    /\ last_outcome = NoRequest
    /\ sleeps = 0
    /\ AppIdle

SpecSplit == SplitInit /\ [][SplitNext]_vars

---------------------------------------------------------------------------
(* Application: run_task, process_pdfs_thread, on_close *)

\* what PDFProcessor.process does for one file: it raises, or it returns the
\* merged text, which is empty for a document without pages and begins with
\* the header of page 1 otherwise
ExtractedTexts ==
    {<<>>, <<"--- Page", "a">>, <<"--- Page">> \o Doc(MAX_CHARS_PER_CHUNK)}

FileBehaviours ==
    {[raises |-> TRUE, text |-> <<>>]}
        \cup {[raises |-> FALSE, text |-> t] : t \in ExtractedTexts}

\* the non-empty lists of PDF files run_task can find in the folder
FileLists == UNION {[1..n -> FileBehaviours] : n \in 1..MaxFiles}

\* a new summarize_text invocation on t (p = "entry"), or none (p = "off")
ResetSummarize(t, p) ==
    /\ text' = t
    /\ split_pc' = "idle"
    /\ current_pos' = 0
    /\ chunks' = <<>>
    /\ prev_pos' = 0
    /\ iterations' = 0
    /\ slices' = <<>>
    /\ forced' = FALSE
    /\ pc' = p
    /\ loop_i' = 0
    /\ chunk_summaries' = <<>>
    /\ has_errors' = FALSE
    /\ calls' = <<>>
    /\ returns' = <<>>
    /\ posts' = 0
    /\ status_log' = <<>>
    /\ returned' = FALSE
    /\ result' = <<>>
    /\ raised' = "none"
    /\ last_outcome' = NoRequest
    /\ sleeps' = 0

\* the values update_config is given for a setting
ConfigValues(key) ==
    IF key = "api_key" THEN ApiKeys
    ELSE IF key = "folder_path" THEN Folders \cup {""}
    ELSE {<<>>} \cup {<<f>> : f \in Folders}

\* ConfigManager.__init__, lines 330-332: self.config = self.load_config()
LoadConfig ==
    /\ config' = LoadedConfig(config_file)
    /\ cfg_op' = "load_config"
    /\ UNCHANGED config_file
    /\ UNCHANGED <<splitVars, sumVars, appVars, ocrVars>>

\* save_config, lines 359-369
SaveConfig ==
    /\ config_file' = SavedFile(config, config_file)
    /\ cfg_op' = "save_config"
    /\ UNCHANGED config
    /\ UNCHANGED <<splitVars, sumVars, appVars, ocrVars>>

\* update_config, lines 371-375
UpdateConfig ==
    /\ \E key \in ConfigKeys : \E value \in ConfigValues(key) :
          /\ config' = [config EXCEPT ![key] = value]
          /\ config_file' = IF key # "api_key"
                            THEN SavedFile(config', config_file)
                            ELSE config_file
    /\ cfg_op' = "update_config"
    /\ UNCHANGED <<splitVars, sumVars, appVars, ocrVars>>

\* add_recent_folder, lines 381-388; "gone" is a path that is no directory
AddRecentFolder ==
    /\ \E folder_path \in Folders \cup {"", "gone"} :
          IF folder_path \notin Folders
          THEN UNCHANGED <<config, config_file>>
          ELSE /\ config' = [config EXCEPT !["recent_folders"] =
                                               RecentWith(@, folder_path)]
               /\ config_file' = SavedFile(config', config_file)
    /\ cfg_op' = "add_recent_folder"
    /\ UNCHANGED <<splitVars, sumVars, appVars, ocrVars>>

\* run_task, lines 853-882, seen from the ConfigManager: the key typed in is
\* stored in memory and the folder is saved
RunTaskSettings ==
    /\ \E key \in ApiKeys \ {""} : \E folder_path \in Folders :
          config' = RunTaskConfig(config, key, folder_path)
    /\ config_file' = SavedFile(config', config_file)
    /\ cfg_op' = "run_task"
    /\ UNCHANGED <<splitVars, sumVars, appVars, ocrVars>>

ConfigNext ==
    \/ LoadConfig
    \/ SaveConfig
    \/ UpdateConfig
    \/ AddRecentFolder
    \/ RunTaskSettings

\* a JSON object with the member k, or without it
Entry(k, present, v) == IF present THEN [x \in {k} |-> v] ELSE NoData

\* what a settings file may hold before the application is started: any
\* subset of the settings, an api_key entry included
FileData ==
    {Merged(Merged(Entry("api_key", a # "no entry", a),
                   Entry("folder_path", f # "no entry", f)),
            Entry("recent_folders", has_recent, <<"d1">>)) :
        a \in ApiKeys \cup {"no entry"},
        f \in {"d1", "no entry"},
        has_recent \in BOOLEAN}

\* the settings files the application may find
ConfigFiles ==
    {[kind |-> k, data |-> NoData, writable |-> w] :
        k \in {"absent", "corrupt", "list"}, w \in BOOLEAN}
    \cup {[kind |-> "object", data |-> d, writable |-> w] :
             d \in FileData, w \in BOOLEAN}

\* the application has been constructed: the settings were loaded
ConfigInit ==
    /\ config_file \in ConfigFiles
    /\ config = LoadedConfig(config_file)
    /\ cfg_op = "load_config"
    /\ text = <<>>
    /\ split_pc = "idle"
    /\ current_pos = 0
    /\ chunks = <<>>
    /\ prev_pos = 0
    /\ iterations = 0
    /\ slices = <<>>
    /\ forced = FALSE
    /\ instruction = <<>>
    /\ api_key = ""
    /\ has_callback = FALSE
    /\ pc = "off"
    /\ loop_i = 0
    /\ chunk_summaries = <<>>
    /\ has_errors = FALSE
    /\ calls = <<>>
    /\ returns = <<>>
    /\ posts = 0
    /\ status_log = <<>>
    /\ returned = FALSE
    /\ result = <<>>
    /\ raised = "none"
    /\ last_outcome = NoRequest
    /\ sleeps = 0
    /\ running = FALSE
    /\ window = TRUE
    /\ app_pc = "none"
    /\ pdf_files = <<>>
    /\ file_i = 0
    /\ processed_count = 0
    /\ error_count = 0
    /\ file_results = <<>>
    /\ final_msg = <<>>
    /\ cancelled = FALSE
    /\ workers = 0
    /\ died_at = "none"
    /\ died_pc = "none"
    /\ OcrIdle

SpecConfig == ConfigInit /\ [][ConfigNext]_vars

---------------------------------------------------------------------------
(* The selection of the pages that are OCR-processed *)

\* the pages 0 .. n-1 in order
AllPages(n) == [i \in 1..n |-> i - 1]

\* what parse_ocr_pages returns (line 802): sorted page numbers, none
\* negative (lines 790, 795) and none twice
ParsedPages ==
    {l \in UNION {[1..n -> 0..MaxPages] : n \in 0..(MaxPages + 1)} :
        \A i \in 1..(Len(l) - 1) : l[i] < l[i + 1]}

\* the page lists a direct caller of process may pass: any integers, also
\* negative, repeated or beyond the last page
AnyPageLists ==
    UNION {[1..n -> (0 - 1)..MaxPages] : n \in 0..MaxOcrList}

\* run_task, lines 858-862: the list typed in is parsed only if OCR is
\* enabled and 'all pages' is not checked
OcrPagesList(enabled, all_pages, typed) ==
    IF enabled /\ ~all_pages THEN typed ELSE <<>>

\* faulty variant: the 'all pages' box is honoured with OCR disabled
PagesToOcrArgIgnoringEnabled(enabled, all_pages, list) ==
    IF all_pages THEN NoneSelector ELSE ListSelector(list)

\* process_pdfs_thread, lines 928-933: pages_to_ocr_arg
PagesToOcrArg(enabled, all_pages, list) ==
    IF enabled
    THEN IF all_pages THEN NoneSelector ELSE ListSelector(list)
    ELSE ListSelector(<<>>)

\* process, line 125: extract_image_text is called
ProcessCallsOcr(sel) == sel.none \/ Len(sel.pages) > 0

\* extract_image_text, lines 62-68: pages_to_process
PagesToProcess(sel, n) ==
    IF sel.none
    THEN AllPages(n)
    ELSE SelectSeq(sel.pages, LAMBDA q : 0 <= q /\ q < n)

\* run_task, lines 855-862
OcrRunTask ==
    /\ ocr_pc = "run_task"
    /\ ocr_pages_list' = OcrPagesList(ocr_enabled, ocr_all_pages, ocr_pages_var)
    /\ ocr_pc' = "thread"
    /\ UNCHANGED <<ocr_entry, ocr_enabled, ocr_all_pages, ocr_pages_var,
                   num_pages, pages_to_ocr_arg, pages_to_process, ocr_visited>>
    /\ UNCHANGED <<splitVars, sumVars, appVars, cfgVars>>

\* process_pdfs_thread, lines 928-935
OcrThread ==
    /\ ocr_pc = "thread"
    /\ pages_to_ocr_arg' =
          PagesToOcrArg(ocr_enabled, ocr_all_pages, ocr_pages_list)
    /\ ocr_pc' = "process"
    /\ UNCHANGED <<ocr_entry, ocr_enabled, ocr_all_pages, ocr_pages_var,
                   ocr_pages_list, num_pages, pages_to_process, ocr_visited>>
    /\ UNCHANGED <<splitVars, sumVars, appVars, cfgVars>>

\* process, lines 121-128
OcrProcess ==
    /\ ocr_pc = "process"
    /\ ocr_pc' = IF ProcessCallsOcr(pages_to_ocr_arg) THEN "select" ELSE "done"
    /\ UNCHANGED <<ocr_entry, ocr_enabled, ocr_all_pages, ocr_pages_var,
                   ocr_pages_list, num_pages, pages_to_ocr_arg,
                   pages_to_process, ocr_visited>>
    /\ UNCHANGED <<splitVars, sumVars, appVars, cfgVars>>

\* extract_image_text, lines 58-72
OcrSelect ==
    /\ ocr_pc = "select"
    /\ pages_to_process' = PagesToProcess(pages_to_ocr_arg, num_pages)
    /\ ocr_pc' = IF pages_to_process' = <<>> THEN "done" ELSE "pages"
    /\ UNCHANGED <<ocr_entry, ocr_enabled, ocr_all_pages, ocr_pages_var,
                   ocr_pages_list, num_pages, pages_to_ocr_arg, ocr_visited>>
    /\ UNCHANGED <<splitVars, sumVars, appVars, cfgVars>>

\* extract_image_text, lines 74-96: one turn of the loop over the pages
OcrPage ==
    /\ ocr_pc = "pages"
    /\ Len(ocr_visited) < Len(pages_to_process)
    /\ ocr_visited' =
          Append(ocr_visited, pages_to_process[Len(ocr_visited) + 1])
    /\ UNCHANGED <<ocr_entry, ocr_enabled, ocr_all_pages, ocr_pages_var,
                   ocr_pages_list, num_pages, pages_to_ocr_arg,
                   pages_to_process, ocr_pc>>
    /\ UNCHANGED <<splitVars, sumVars, appVars, cfgVars>>

\* extract_image_text, line 98: the loop has ended
OcrReturn ==
    /\ ocr_pc = "pages"
    /\ Len(ocr_visited) = Len(pages_to_process)
    /\ ocr_pc' = "done"
    /\ UNCHANGED <<ocr_entry, ocr_enabled, ocr_all_pages, ocr_pages_var,
                   ocr_pages_list, num_pages, pages_to_ocr_arg,
                   pages_to_process, ocr_visited>>
    /\ UNCHANGED <<splitVars, sumVars, appVars, cfgVars>>

OcrNext ==
    \/ OcrRunTask
    \/ OcrThread
    \/ OcrProcess
    \/ OcrSelect
    \/ OcrPage
    \/ OcrReturn

\* a batch run is about to read the OCR settings, or process is called
\* directly with a selector
OcrInit ==
    /\ num_pages \in 0..MaxPages
    /\ \/ /\ ocr_entry = "run_task"
          /\ ocr_pc = "run_task"
          /\ ocr_enabled \in BOOLEAN
          /\ ocr_all_pages \in BOOLEAN
          /\ ocr_pages_var \in ParsedPages
          /\ pages_to_ocr_arg = ListSelector(<<>>)
       \/ /\ ocr_entry = "process"
          /\ ocr_pc = "process"
          /\ ocr_enabled = FALSE
          /\ ocr_all_pages = FALSE
          /\ ocr_pages_var = <<>>
          /\ pages_to_ocr_arg \in
                {NoneSelector} \cup {ListSelector(l) : l \in AnyPageLists}
    /\ ocr_pages_list = <<>>
    /\ pages_to_process = <<>>
    /\ ocr_visited = <<>>
    /\ CfgIdle
    /\ text = <<>>
    /\ split_pc = "idle"
    /\ current_pos = 0
    /\ chunks = <<>>
    /\ prev_pos = 0
    /\ iterations = 0
    /\ slices = <<>>
    /\ forced = FALSE
    /\ instruction = <<>>
    /\ api_key = ""
    /\ has_callback = FALSE
    /\ pc = "off"
    /\ loop_i = 0
    /\ chunk_summaries = <<>>
    /\ has_errors = FALSE
    /\ calls = <<>>
    /\ returns = <<>>
    /\ posts = 0
    /\ status_log = <<>>
    /\ returned = FALSE
    /\ result = <<>>
    /\ raised = "none"
    /\ last_outcome = NoRequest
    /\ sleeps = 0
    /\ running = FALSE
    /\ window = TRUE
    /\ app_pc = "none"
    /\ pdf_files = <<>>
    /\ file_i = 0
    /\ processed_count = 0
    /\ error_count = 0
    /\ file_results = <<>>
    /\ final_msg = <<>>
    /\ cancelled = FALSE
    /\ workers = 0
    /\ died_at = "none"
    /\ died_pc = "none"

SpecOcr == OcrInit /\ [][OcrNext]_vars

\* the instruction typed into the instruction box
CustomInstruction == <<"Summarize briefly">>

\* the worker thread is alive
WorkerAlive == app_pc \in {"loop", "extract", "summarize", "report", "finally"}

\* faulty variant: the flag is not read at the head of the loop
LoopNeverBreaks(running_flag, errors) == FALSE

\* faulty variant: the loop is also left once a file has failed
LoopBreaksOnError(running_flag, errors) == ~running_flag \/ errors > 0

\* line 912: "if not self.running: break"
LoopBreaks(running_flag, errors) == ~running_flag

\* line 947: the summary counts as a failure
IsErrorSummary(summary) == StartsWith(summary, ErrorPrefix)

\* lines 987: final_msg
FinalMsg(processed, errors) ==
    <<"Processing complete.", "\n", "Successfully summarized:", " ",
      ToString(processed), "\n", "Files with errors:", " ", ToString(errors)>>

\* faulty variant: a run is started whether or not one is in progress
StartAlwaysAllowed(running_flag) == TRUE

\* lines 820-822: run_task goes on only when no run is in progress
StartAllowed(running_flag) == ~running_flag

\* run_task, lines 818-898, and the first statements of the thread it starts
\* (lines 905-909).  The key typed in is "sk" and the folder is "d1"; the
\* settings are saved by the update_config and add_recent_folder calls of
\* lines 873-882.  While a run is in progress it shows a warning and
\* returns; it also returns, changing nothing, without an API key or when
\* the folder holds no PDF file.
RunTask ==
    /\ window
    /\ IF ~StartAllowed(running)
       THEN UNCHANGED vars
       ELSE /\ \E files \in FileLists : pdf_files' = files
            /\ instruction' = CustomInstruction
            /\ api_key' = "sk"
            /\ has_callback' = TRUE
            /\ running' = TRUE
            /\ workers' = workers + 1
            /\ app_pc' = "loop"
            /\ file_i' = 0
            /\ processed_count' = 0
            /\ error_count' = 0
            /\ file_results' = <<>>
            /\ final_msg' = <<>>
            /\ config' = RunTaskConfig(config, "sk", "d1")
            /\ config_file' = SavedFile(config', config_file)
            /\ cfg_op' = "update_config"
            /\ UNCHANGED ocrVars
            /\ UNCHANGED <<window, cancelled, died_at, died_pc>>
            /\ UNCHANGED splitVars
            /\ UNCHANGED <<pc, loop_i, chunk_summaries, has_errors, calls,
                           returns, posts, status_log, returned, result,
                           raised, last_outcome, sleeps>>

\* lines 911-916: the head of the for loop over the files
WorkerLoopHead ==
    /\ app_pc = "loop"
    /\ IF file_i >= Len(pdf_files) \/ LoopBreaks(running, error_count)
       THEN app_pc' = "report"
       ELSE window /\ app_pc' = "extract"
    /\ UNCHANGED <<running, window, pdf_files, file_i, processed_count,
                   error_count, file_results, final_msg, cancelled>>
    /\ UNCHANGED <<splitVars, sumVars>>
    /\ UNCHANGED <<workers, died_at, died_pc>>
    /\ UNCHANGED sideVars

\* lines 920-945 and 969-980: the text of file i is extracted; extraction
\* raises (the file is counted as an error), or there is no text (the file is
\* skipped), or summarize_text is called
WorkerExtract ==
    /\ app_pc = "extract"
    /\ window
    /\ LET f == pdf_files[file_i + 1]
       IN  IF f.raises
           THEN /\ error_count' = error_count + 1
                /\ file_results' = Append(file_results, "raised")
                /\ file_i' = file_i + 1
                /\ app_pc' = "loop"
                /\ UNCHANGED <<splitVars, sumVars>>
           ELSE IF NoText(f.text)
           THEN /\ file_results' = Append(file_results, "no_text")
                /\ file_i' = file_i + 1
                /\ app_pc' = "loop"
                /\ UNCHANGED error_count
                /\ UNCHANGED <<splitVars, sumVars>>
           ELSE /\ ResetSummarize(f.text, "entry")
                /\ app_pc' = "summarize"
                /\ UNCHANGED <<instruction, api_key, has_callback>>
                /\ UNCHANGED <<error_count, file_results, file_i>>
    /\ UNCHANGED <<running, window, pdf_files, processed_count, final_msg,
                   cancelled>>
    /\ UNCHANGED <<workers, died_at, died_pc>>
    /\ UNCHANGED sideVars

\* summarize_text is about to call update_status
CallbackDue ==
    \/ pc \in {"entry", "single_wait", "chunk_call", "combine", "synth_wait"}
    \/ pc = "splitting" /\ split_pc = "returned"
    \/ pc = "dispatch" /\ Len(chunks) = 1

\* line 944: one step of summarize_text inside the worker thread; a step that
\* calls update_status needs the window
WorkerSummarize ==
    /\ app_pc = "summarize"
    /\ window \/ ~CallbackDue
    /\ \/ SummarizeSplit \/ SummarizeCountChunks
       \/ SingleChunkCall \/ SingleChunkResponse
       \/ BeginChunkLoop \/ ChunkCall \/ ChunkResponse \/ ChunkSleep
       \/ CombineSkip \/ SynthesisCall \/ SynthesisResponse
       \/ SplitNext

\* faulty variant: a summarized file is counted as an error as well, as if a
\* later statement of the try block had raised
WorkerHandleResultCountsTwice ==
    /\ app_pc = "summarize"
    /\ pc = "done" /\ returned
    /\ window
    /\ IF IsErrorSummary(result)
       THEN /\ error_count' = error_count + 1
            /\ file_results' = Append(file_results, "error")
            /\ UNCHANGED processed_count
       ELSE /\ processed_count' = processed_count + 1
            /\ file_results' = Append(file_results, "ok")
            /\ error_count' = error_count + 1
    /\ file_i' = file_i + 1
    /\ app_pc' = "loop"
    /\ ResetSummarize(<<>>, "off")
    /\ UNCHANGED <<instruction, api_key, has_callback>>
    /\ UNCHANGED <<running, window, pdf_files, final_msg, cancelled>>
    /\ UNCHANGED <<workers, died_at, died_pc>>
    /\ UNCHANGED sideVars

\* lines 947-967 and 980: summarize_text has returned; the file is counted as
\* an error or as processed
WorkerHandleResult ==
    /\ app_pc = "summarize"
    /\ pc = "done" /\ returned
    /\ window
    /\ IF IsErrorSummary(result)
       THEN /\ error_count' = error_count + 1
            /\ file_results' = Append(file_results, "error")
            /\ UNCHANGED processed_count
       ELSE /\ processed_count' = processed_count + 1
            /\ file_results' = Append(file_results, "ok")
            /\ UNCHANGED error_count
    /\ file_i' = file_i + 1
    /\ app_pc' = "loop"
    /\ ResetSummarize(<<>>, "off")
    /\ UNCHANGED <<instruction, api_key, has_callback>>
    /\ UNCHANGED <<running, window, pdf_files, final_msg, cancelled>>
    /\ UNCHANGED <<workers, died_at, died_pc>>
    /\ UNCHANGED sideVars

\* lines 986-989: the completion report
WorkerReport ==
    /\ app_pc = "report"
    /\ window
    /\ final_msg' = FinalMsg(processed_count, error_count)
    /\ app_pc' = "finally"
    /\ UNCHANGED <<running, window, pdf_files, file_i, processed_count,
                   error_count, file_results, cancelled>>
    /\ UNCHANGED <<splitVars, sumVars>>
    /\ UNCHANGED <<workers, died_at, died_pc>>
    /\ UNCHANGED sideVars

\* faulty variant: the thread ends without the finally clause
WorkerEndsWithoutFinally ==
    /\ app_pc = "finally"
    /\ window
    /\ app_pc' = "ended"
    /\ UNCHANGED <<running, window, pdf_files, file_i, processed_count,
                   error_count, file_results, final_msg, cancelled>>
    /\ UNCHANGED <<splitVars, sumVars>>
    /\ workers' = workers - 1
    /\ UNCHANGED <<died_at, died_pc>>
    /\ UNCHANGED sideVars

\* lines 1001-1007: the finally clause
WorkerFinally ==
    /\ app_pc = "finally"
    /\ window
    /\ running' = FALSE
    /\ app_pc' = "ended"
    /\ UNCHANGED <<window, pdf_files, file_i, processed_count, error_count,
                   file_results, final_msg, cancelled>>
    /\ UNCHANGED <<splitVars, sumVars>>
    /\ workers' = workers - 1
    /\ UNCHANGED <<died_at, died_pc>>
    /\ UNCHANGED sideVars

\* The window has been destroyed and the worker reaches a call of
\* update_status, update_progress or root.after: the call raises TclError,
\* the except clauses it passes through (lines 969-978, 991-999) call the
\* destroyed window again, and the finally clause clears running (line 1003)
\* before winfo_exists raises at line 1004: the thread ends with the
\* exception and its invocation of summarize_text, if any, is gone.  At the
\* head of the loop the first such call is that of line 917, reached only
\* when the loop is not left.
WorkerCrash ==
    /\ WorkerAlive
    /\ ~window
    /\ app_pc = "summarize" => (CallbackDue \/ pc = "done")
    /\ app_pc = "loop" =>
          ~(file_i >= Len(pdf_files) \/ LoopBreaks(running, error_count))
    /\ running' = FALSE
    /\ app_pc' = "crashed"
    /\ ResetSummarize(<<>>, "off")
    /\ UNCHANGED <<instruction, api_key, has_callback>>
    /\ UNCHANGED <<window, pdf_files, file_i, processed_count, error_count,
                   file_results, final_msg, cancelled>>
    /\ workers' = workers - 1
    /\ died_at' = app_pc
    /\ died_pc' = pc
    /\ UNCHANGED sideVars

\* on_close, lines 1016-1028, confirmed by the user during a run
CloseWhileRunning ==
    /\ window
    /\ running
    /\ running' = FALSE
    /\ window' = FALSE
    /\ cancelled' = TRUE
    /\ UNCHANGED <<app_pc, pdf_files, file_i, processed_count, error_count,
                   file_results, final_msg>>
    /\ UNCHANGED <<splitVars, sumVars>>
    /\ UNCHANGED <<workers, died_at, died_pc>>
    /\ UNCHANGED sideVars

\* on_close, lines 1025-1028, while no run is in progress
CloseWhileIdle ==
    /\ window
    /\ ~running
    /\ window' = FALSE
    /\ UNCHANGED <<running, app_pc, pdf_files, file_i, processed_count,
                   error_count, file_results, final_msg, cancelled>>
    /\ UNCHANGED <<splitVars, sumVars>>
    /\ UNCHANGED <<workers, died_at, died_pc>>
    /\ UNCHANGED sideVars

\* root.mainloop() has returned (line 1063) and the interpreter exits: the
\* worker, a daemon thread (line 896), is stopped wherever it is, and with
\* it its invocation of summarize_text, if any
ProcessExit ==
    /\ ~window
    /\ WorkerAlive
    /\ app_pc' = "killed"
    /\ ResetSummarize(<<>>, "off")
    /\ UNCHANGED <<instruction, api_key, has_callback>>
    /\ UNCHANGED <<running, window, pdf_files, file_i, processed_count,
                   error_count, file_results, final_msg, cancelled>>
    /\ workers' = workers - 1
    /\ died_at' = app_pc
    /\ died_pc' = pc
    /\ UNCHANGED sideVars

AppNext ==
    \/ RunTask
    \/ WorkerLoopHead \/ WorkerExtract \/ WorkerSummarize
    \/ WorkerHandleResult \/ WorkerReport \/ WorkerFinally \/ WorkerCrash
    \/ CloseWhileRunning \/ CloseWhileIdle \/ ProcessExit

AppInit ==
    /\ text = <<>>
    /\ split_pc = "idle"
    /\ current_pos = 0
    /\ chunks = <<>>
    /\ prev_pos = 0
    /\ iterations = 0
    /\ slices = <<>>
    /\ forced = FALSE
    /\ instruction = <<>>
    /\ api_key = ""
    /\ has_callback = FALSE
    /\ pc = "off"
    /\ loop_i = 0
    /\ chunk_summaries = <<>>
    /\ has_errors = FALSE
    /\ calls = <<>>
    /\ returns = <<>>
    /\ posts = 0
    /\ status_log = <<>>
    /\ returned = FALSE
    /\ result = <<>>
    /\ raised = "none"
    /\ last_outcome = NoRequest
    /\ sleeps = 0
    /\ AppIdle

SpecApp == AppInit /\ [][AppNext]_vars

\* a step of the worker thread while the window exists
WorkerStep ==
    \/ WorkerLoopHead \/ WorkerExtract \/ WorkerSummarize
    \/ WorkerHandleResult \/ WorkerReport \/ WorkerFinally

\* The batch run with a worker thread that keeps running: the thread is
\* scheduled as long as it has a step to take, extraction ends, and every
\* request ends, at the latest by its timeout of 180 seconds (line 217).
\* Nothing is assumed about the user: no close and no new run is required.
FairSpecApp == AppInit /\ [][AppNext]_vars /\ WF_vars(WorkerStep)

---------------------------------------------------------------------------
(* Properties of the splitter *)

CeilDiv(a, b) == (a + b - 1) \div b

\* s with its whitespace removed
NoWhitespace(s) == SelectSeq(s, LAMBDA c : c \notin Whitespace)

RECURSIVE Concat(_)
Concat(ss) == IF ss = <<>> THEN <<>> ELSE Head(ss) \o Concat(Tail(ss))

LongText == Len(text) > MAX_CHARS_PER_CHUNK

\* C8: for a text longer than MAX_CHARS_PER_CHUNK every returned chunk has at
\* most MAX_CHARS_PER_CHUNK tokens, is non-empty, and neither begins nor ends
\* with whitespace.
C8_ChunksBoundedAndTrimmed ==
    (split_pc = "returned" /\ LongText) =>
        \A k \in 1..Len(chunks) :
            /\ Len(chunks[k]) >= 1
            /\ Len(chunks[k]) <= MAX_CHARS_PER_CHUNK
            /\ chunks[k][1] \notin Whitespace
            /\ chunks[k][Len(chunks[k])] \notin Whitespace

\* a long text was split into three or more chunks, one of them shorter than
\* its slice because whitespace was trimmed, and one slice was dropped whole
C8_Witness ==
    /\ split_pc = "returned" /\ LongText
    /\ Len(chunks) >= 3
    /\ Len(chunks) < Len(slices)
    /\ \E k \in 1..Len(chunks) : Len(chunks[k]) = MAX_CHARS_PER_CHUNK
    /\ \E k \in 1..Len(slices) :
           LET sl == Slice(text, slices[k][1], slices[k][2])
           IN  Strip(sl) # <<>> /\ Len(Strip(sl)) < Len(sl)

\* C9: the loop of the splitter terminates: the cursor strictly increases in
\* every iteration and never passes the end of the text, the loop is left
\* with the cursor at the end of the text, and the number of iterations
\* counted so far never exceeds ceil(len(text) / MAX_CHARS_PER_CHUNK), so the
\* loop cannot run forever.
C9_CursorAdvancesBoundedIterations ==
    /\ current_pos >= 0 /\ current_pos <= Len(text)
    /\ iterations >= 1 => prev_pos < current_pos
    /\ iterations <= CeilDiv(Len(text), MAX_CHARS_PER_CHUNK)
    /\ split_pc \in {"filter", "returned"} /\ LongText =>
           current_pos = Len(text)

\* a text without any marker went through three iterations
C9_Witness ==
    /\ split_pc = "returned"
    /\ iterations >= 3
    /\ \A i \in 1..Len(text) : text[i] = "."

\* C10: the chunks are taken from consecutive, non-overlapping slices that
\* cover the whole text in order, so the chunks concatenated, whitespace
\* ignored, are the text, whitespace ignored.
C10_ChunksReconstructText ==
    split_pc = "returned" =>
        /\ NoWhitespace(Concat(chunks)) = NoWhitespace(text)
        /\ text # <<>> =>
              /\ slices[1][1] = 0
              /\ slices[Len(slices)][2] = Len(text)
              /\ \A k \in 1..Len(slices) - 1 : slices[k][2] = slices[k + 1][1]
              /\ \A k \in 1..Len(slices) : slices[k][1] < slices[k][2]

\* a text with whitespace at the cut points was split into several chunks
C10_Witness ==
    /\ split_pc = "returned"
    /\ Len(chunks) >= 3
    /\ Len(Concat(chunks)) < Len(text)
    /\ \E k \in 1..Len(slices) - 1 : text[slices[k][2]] \in Whitespace

\* C11: for a text of at most MAX_CHARS_PER_CHUNK tokens the splitter returns
\* exactly one chunk, equal to the text with its leading and trailing
\* whitespace removed, and no chunk when the text is empty.
C11_ShortTextOneTrimmedChunk ==
    (split_pc = "returned" /\ ~LongText) =>
        chunks = IF text = <<>> THEN <<>> ELSE <<Strip(text)>>

\* the slice [from, to) cut at the cut point chosen in the last iteration
NaturalSlice ==
    IF forced THEN slices[Len(slices) - 1] ELSE slices[Len(slices)]

\* the window of the last iteration ends before the end of the text, so a cut
\* point was looked for
CutSearched ==
    /\ split_pc \in {"loop", "filter", "returned"} /\ LongText
    /\ iterations >= 1
    /\ EndPos(text, prev_pos) < Len(text)

\* the last page marker of the window of the last iteration, -1 if none
LastPageMarker == RFind(text, PageMarker, prev_pos, EndPos(text, prev_pos))

\* the last paragraph break of the window of the last iteration, -1 if none
LastParaBreak == RFind(text, ParaBreak, prev_pos, EndPos(text, prev_pos))

\* C12: page markers have priority over paragraph breaks: when the window
\* holds a page marker strictly after the cursor the cut is made at the last
\* such marker, even if the window also holds a paragraph break; the cut is
\* made after a paragraph break only when no page marker qualifies.
C12_PageMarkerBeforeParagraph ==
    CutSearched =>
        /\ LastPageMarker > prev_pos => NaturalSlice[2] = LastPageMarker
        /\ (LastParaBreak > prev_pos /\ NaturalSlice[2] = LastParaBreak + 2) =>
               ~(LastPageMarker > prev_pos)

\* C13: the hard cut is the last resort: a slice ends a full window after its
\* start, before the end of the text, only when that window holds no page
\* marker, paragraph break or sentence ending after the start of the slice
\* (or the cut point found in it is that very boundary);
\* and the forced advance is not taken in an iteration whose cut advanced the
\* cursor.
C13_HardCutLastResort ==
    (split_pc \in {"loop", "filter", "returned"} /\ LongText) =>
        /\ \A k \in 1..Len(slices) :
              LET from == slices[k][1]
                  to == slices[k][2]
              IN  (to = from + MAX_CHARS_PER_CHUNK /\ to < Len(text)) =>
                      \/ BestSplit(text, from, to) <= from
                      \/ BestSplit(text, from, to) = to
        /\ (iterations >= 1 /\ forced) => NaturalSlice[2] <= NaturalSlice[1]

---------------------------------------------------------------------------
(* Properties of summarize_text *)

\* sub in s
Contains(s, sub) ==
    \E p \in 0..(Len(s) - Len(sub)) : SubSeq(s, p + 1, p + Len(sub)) = sub

NumChunks == Len(chunks)

\* the splitter has returned to summarize_text with two or more chunks
MultiChunkRun == split_pc = "returned" /\ pc # "off" /\ NumChunks >= 2

\* the k-th request of the invocation has returned an error string
CallFailed(k) ==
    k <= Len(returns) /\ Len(returns[k]) >= 1 /\ returns[k][1] = "Error:"

\* every chunk request has returned
AllChunksAnswered == Len(returns) >= NumChunks

SomeChunkFailed == \E k \in 1..NumChunks : CallFailed(k)

\* what chunk k contributes to the combined summaries
ChunkContribution(k) ==
    IF CallFailed(k)
    THEN <<"[Error summarizing chunk", " ", ToString(k), ":", " ">>
             \o returns[k] \o <<"]">>
    ELSE returns[k]

\* the chunk contributions in chunk order, separated by the delimiter
ExpectedCombined ==
    Join(<<"\n", "\n", "---", "\n", "\n">>,
         [k \in 1..NumChunks |-> ChunkContribution(k)])

SynthesisDue ==
    /\ AllChunksAnswered
    /\ ~SomeChunkFailed
    /\ Len(ExpectedCombined) <= MAX_COMBINED_SUMMARY_CHARS

\* C1: with N >= 2 chunks the invocation issues exactly N chunk requests, the
\* k-th one for chunk k with the context "part k of N", in chunk order, and
\* after them exactly one synthesis request if and only if no chunk request
\* returned an error and the combined summaries are not longer than
\* MAX_COMBINED_SUMMARY_CHARS; it issues no other request.
C1_ChunkRequestsThenSynthesis ==
    MultiChunkRun =>
        /\ Len(calls) <= NumChunks + 1
        /\ \A k \in 1..Len(calls) :
              k <= NumChunks =>
                 /\ calls[k].context =
                        <<"You are summarizing part", " ", ToString(k), " ",
                          "of", " ", ToString(NumChunks), " ",
                          "from a larger document.">>
                 /\ Contains(calls[k].prompt, chunks[k])
                 /\ Contains(calls[k].prompt, instruction)
                 /\ Len(returns) >= k - 1
        /\ Len(calls) = NumChunks + 1 =>
              /\ SynthesisDue
              /\ calls[NumChunks + 1].context = <<>>
              /\ Contains(calls[NumChunks + 1].prompt, ExpectedCombined)
        /\ pc = "done" =>
              Len(calls) = NumChunks + (IF SynthesisDue THEN 1 ELSE 0)

\* three chunk requests were followed by the synthesis request
C1_Witness ==
    /\ MultiChunkRun /\ pc = "done"
    /\ NumChunks = 3
    /\ Len(calls) = 4
    /\ posts = 4

\* C2: a failed chunk request does not abort a multi-chunk run: every chunk
\* is still requested, no synthesis request is issued, and the result is the
\* skip notice followed by the contributions of the chunks in chunk order, a
\* successful chunk contributing its summary and a failed chunk k a
\* bracketed error marker carrying k.
C2_FailedChunkDegradesResult ==
    (MultiChunkRun /\ SomeChunkFailed) =>
        /\ raised = "none"
        /\ pc \in {"chunk_call", "chunk_wait", "sleep", "combine", "done"}
        /\ pc \in {"combine", "done"} =>
              Len(calls) = NumChunks /\ Len(returns) = NumChunks
        /\ pc = "done" =>
              /\ returned
              /\ result = SkipNotice(FALSE, TRUE) \o ExpectedCombined

\* chunk 2 of 3 failed with a transport error, chunks 1 and 3 succeeded
C2_Witness ==
    /\ MultiChunkRun /\ pc = "done"
    /\ NumChunks = 3
    /\ ~CallFailed(1) /\ CallFailed(2) /\ ~CallFailed(3)
    /\ returns[2] = <<"Error:", " ", "Request timed out.">>
    /\ Contains(result, <<"[Error summarizing chunk", " ", "2", ":">>)

\* C3: with exactly one chunk the invocation issues exactly one request, whose
\* prompt contains the instruction and the chunk text, and returns the result
\* of that request unchanged, a summary or an error string.
C3_SingleChunkOneRequest ==
    (split_pc = "returned" /\ pc # "off" /\ NumChunks = 1) =>
        /\ Len(calls) <= 1
        /\ posts <= 1
        /\ \A k \in 1..Len(calls) :
              /\ Contains(calls[k].prompt, instruction)
              /\ Contains(calls[k].prompt, chunks[1])
              /\ Contains(FullPrompt(calls[k].prompt, calls[k].context),
                          instruction)
              /\ Contains(FullPrompt(calls[k].prompt, calls[k].context),
                          Strip(text))
        /\ pc = "done" =>
              /\ Len(calls) = 1 /\ Len(returns) = 1
              /\ returned /\ result = returns[1]

\* a single-chunk run returned the summary of its only request
C3_Witness ==
    /\ split_pc = "returned" /\ pc = "done" /\ NumChunks = 1
    /\ instruction # <<>>
    /\ Len(calls) = 1
    /\ result = <<"s">>

\* C4: for a text that is empty or only whitespace the invocation returns a
\* failure string at once: the splitter is not invoked, no request is issued
\* and the callback is not called.
C4_NoTextFailsAtOnce ==
    (pc # "off" /\ \A k \in 1..Len(text) : text[k] \in {" ", "\n"}) =>
        /\ pc \in {"entry", "done"}
        /\ split_pc = "idle"
        /\ calls = <<>> /\ posts = 0 /\ status_log = <<>>
        /\ pc = "done" =>
              /\ returned
              /\ result = <<"Error:", " ", "No text provided to summarize.">>

\* a whitespace-only text was rejected
C4_Witness ==
    /\ pc = "done"
    /\ Len(text) > MAX_CHARS_PER_CHUNK
    /\ \A k \in 1..Len(text) : text[k] \in {" ", "\n"}
    /\ returned

C6_OneSummaryPerChunk ==
    (MultiChunkRun /\ pc # "dispatch") =>
        /\ pc \in {"chunk_call", "chunk_wait"} =>
              Len(chunk_summaries) = loop_i /\ Len(returns) = loop_i
        /\ pc = "sleep" =>
              Len(chunk_summaries) = loop_i + 1 /\ Len(returns) = loop_i + 1
        /\ pc \in {"combine", "synth_wait", "done"} =>
              Len(chunk_summaries) = NumChunks
        /\ \A j \in 1..Len(chunk_summaries) :
              chunk_summaries[j] = ChunkContribution(j)
        /\ pc \in {"combine", "synth_wait", "done"} =>
              CombinedSummaries(chunk_summaries) = ExpectedCombined
        /\ (pc = "done" /\ Len(calls) = NumChunks) =>
              Contains(result, ExpectedCombined)

\* the second of three chunk requests has just returned
C6_Witness ==
    /\ MultiChunkRun /\ pc = "sleep"
    /\ NumChunks = 3 /\ loop_i = 1
    /\ Len(chunk_summaries) = 2
    /\ CallFailed(1) /\ ~CallFailed(2)

TooLongWithoutFailure ==
    /\ MultiChunkRun /\ pc = "done"
    /\ AllChunksAnswered /\ ~SomeChunkFailed
    /\ Len(ExpectedCombined) > MAX_COMBINED_SUMMARY_CHARS

\* C7 as stated: when every chunk request succeeded and the combined
\* summaries are too long, the result is prefixed with a notice that differs
\* from the notice used when a chunk failed.
C7_Original ==
    TooLongWithoutFailure =>
        /\ returned /\ Len(calls) = NumChunks
        /\ ~StartsWith(result, SkipNotice(FALSE, TRUE))

\* C7 as amended: when every chunk request succeeded and the combined
\* summaries are too long, no synthesis request is issued and the result is
\* the combined summaries prefixed with the skip notice, the same notice that
\* is used when a chunk failed.
C7_LengthSkipUsesSameNotice ==
    TooLongWithoutFailure =>
        /\ returned /\ Len(calls) = NumChunks
        /\ result = SkipNotice(TRUE, FALSE) \o ExpectedCombined
        /\ StartsWith(result, SkipNotice(FALSE, TRUE))

\* two successful chunk summaries were too long together
C7_Witness ==
    /\ TooLongWithoutFailure
    /\ NumChunks = 2
    /\ posts = 2

---------------------------------------------------------------------------
(* Properties of _send_api_request *)

LastReturn == returns[Len(returns)]

\* a request is in flight: its call has been made and has not ended
InFlight == pc \in {"single_wait", "chunk_wait", "synth_wait"}

\* the last call sent a request, met last_outcome and returned LastReturn
Answered ==
    /\ pc # "off" /\ raised = "none"
    /\ Len(returns) >= 1
    /\ last_outcome.kind # "no_request"

\* the behaviours in which the request fails or the response cannot be used
FailureKinds ==
    {"timeout", "connection", "http_error_json_body", "http_error_text_body",
     "bad_json", "no_choices", "choices_not_list", "message_null",
     "content_not_str"}

\* C14: _send_api_request never raises: every call that has ended has
\* returned, and after a timeout, a non-success status, another transport
\* failure, or a response that cannot be parsed or lacks choices, message or
\* content, it has returned a string that begins with "Error:"; the strings
\* for a timeout, for an HTTP error (with status and body) and for another
\* network error differ in their wording.
C14_RequestNeverRaises ==
    pc # "off" =>
        /\ raised = "none"
        /\ Len(returns) = Len(calls) - (IF InFlight THEN 1 ELSE 0)
        /\ Answered =>
              /\ (\/ last_outcome.kind \in FailureKinds
                  \/ last_outcome.content = <<>>) =>
                     StartsWith(LastReturn, ErrorPrefix)
              /\ last_outcome.kind = "timeout" =>
                     LastReturn = <<"Error:", " ", "Request timed out.">>
              /\ last_outcome.kind \in
                     {"http_error_json_body", "http_error_text_body"} =>
                     /\ StartsWith(LastReturn, <<"Error:", " ", "HTTP Error:">>)
                     /\ Contains(LastReturn, <<"Status Code">>)
                     /\ Contains(LastReturn, <<"Response:">>)
              /\ last_outcome.kind = "connection" =>
                     StartsWith(LastReturn,
                         <<"Error:", " ", "Network or Request Error:">>)

\* the request for the second of three chunks ended with a non-success status
\* whose body is not JSON, and the call returned the HTTP error string
C14_Witness ==
    /\ Answered /\ pc = "sleep"
    /\ NumChunks = 3 /\ Len(returns) = 2
    /\ last_outcome.kind = "http_error_text_body"
    /\ Contains(LastReturn, <<"Response:", " ", "text body">>)

\* the calls made so far for chunk k of a multi-chunk run
CallsForChunk(k) ==
    {j \in 1..Len(calls) : calls[j].context = ContextInfo(k, NumChunks)}

\* C15: a call of _send_api_request sends exactly one request when there is a
\* credential and none when there is not, in which case it returns an error
\* string; no request is repeated, so no chunk is requested twice in one
\* invocation, whatever its request returned.
C15_OneRequestPerCallNoRetry ==
    pc # "off" =>
        /\ posts = (IF api_key = "" THEN 0 ELSE Len(calls))
        /\ api_key = "" =>
              \A k \in 1..Len(returns) :
                  returns[k] = <<"Error:", " ",
                                 "API Key not provided to APIClient.">>
        /\ split_pc = "returned" => Len(calls) <= NumChunks + 1
        /\ MultiChunkRun =>
              \A k \in 1..NumChunks : Cardinality(CallsForChunk(k)) <= 1
        /\ (MultiChunkRun /\ SomeChunkFailed /\ pc = "done") =>
              Len(calls) = NumChunks

\* a run of three chunks whose first two requests failed has ended after
\* three requests
C15_Witness ==
    /\ MultiChunkRun /\ pc = "done"
    /\ NumChunks = 3
    /\ api_key # ""
    /\ CallFailed(1) /\ CallFailed(2) /\ ~CallFailed(3)
    /\ posts = 3

TruncationMarker ==
    <<"Error:", " ", "API response truncated due to length limits.">>

ContentFilterMarker ==
    <<"Error:", " ", "API response filtered due to content policy.">>

\* C16 as stated: a response whose finish_reason is "length" yields the
\* truncation marker and one whose finish_reason is "content_filter" yields
\* the content-filter marker.
C16_Original ==
    (Answered /\ last_outcome.kind = "content") =>
        /\ last_outcome.finish = "length" =>
               Contains(LastReturn, TruncationMarker)
        /\ last_outcome.finish = "content_filter" =>
               Contains(LastReturn, ContentFilterMarker)

\* C16 as amended: a response without content whose finish_reason is "length"
\* yields the truncation marker, one without content whose finish_reason is
\* "content_filter" yields the content-filter marker, a different string;
\* when the response carries content the finish_reason is not read and the
\* result is the content, stripped.
C16_MarkersOnlyWithoutContent ==
    (Answered /\ last_outcome.kind = "content") =>
        /\ TruncationMarker # ContentFilterMarker
        /\ (last_outcome.content = <<>> /\ last_outcome.finish = "length") =>
               LastReturn = TruncationMarker
        /\ (last_outcome.content = <<>>
               /\ last_outcome.finish = "content_filter") =>
               LastReturn = ContentFilterMarker
        /\ last_outcome.content # <<>> =>
               LastReturn = Strip(last_outcome.content)

\* a response without content and with finish_reason "length" was answered
\* with the truncation marker
C16_Witness ==
    /\ Answered /\ pc = "done"
    /\ NumChunks = 1
    /\ last_outcome = [kind |-> "content", content |-> <<>>,
                       finish |-> "length"]
    /\ result = TruncationMarker

\* C17: for a successful response that carries content the call returns the
\* content with its surrounding whitespace removed, and the returned string
\* does not begin with "Error:".
C17_ContentReturnedWithoutErrorPrefix ==
    (Answered /\ last_outcome.kind = "content"
        /\ last_outcome.content # <<>>) =>
        /\ LastReturn = Strip(last_outcome.content)
        /\ ~StartsWith(LastReturn, ErrorPrefix)

\* C18: for a successful response without usable content (content missing,
\* empty, or only whitespace) the call returns an error string naming the
\* reason (filtered, truncated, or otherwise empty), never the empty string.
C18_NoUsableContentIsAnError ==
    (Answered /\ last_outcome.kind = "content"
        /\ Strip(last_outcome.content) = <<>>) =>
        /\ LastReturn # <<>>
        /\ StartsWith(LastReturn, ErrorPrefix)
        /\ last_outcome.finish = "length" => LastReturn = TruncationMarker
        /\ last_outcome.finish = "content_filter" =>
               LastReturn = ContentFilterMarker
        /\ last_outcome.finish = "stop" =>
               StartsWith(LastReturn,
                   <<"Error:", " ", "API returned empty content">>)

---------------------------------------------------------------------------
(* Order of the requests of a multi-chunk run *)

\* C19: the requests of a multi-chunk run are strictly sequential: at most
\* one request is in flight at any time; the request for chunk k + 1 is
\* issued only after the request for chunk k has returned and the delay that
\* follows it has ended; and the synthesis request is issued only after the
\* request of every chunk has returned.
C19_RequestsStrictlySequential ==
    MultiChunkRun =>
        /\ Len(calls) - Len(returns) \in {0, 1}
        /\ InFlight <=> Len(calls) - Len(returns) = 1
        /\ \A k \in 2..Len(calls) :
              /\ Len(returns) >= k - 1
              /\ sleeps >= k - 1
        /\ sleeps <= Len(returns)
        /\ Len(calls) = NumChunks + 1 =>
              /\ Len(returns) >= NumChunks
              /\ sleeps = NumChunks
              /\ \A k \in 1..NumChunks : Cardinality(CallsForChunk(k)) = 1

\* the synthesis request of a run of three chunks is in flight: three
\* requests have returned and three delays have ended
C19_Witness ==
    /\ MultiChunkRun /\ pc = "synth_wait"
    /\ NumChunks = 3
    /\ Len(calls) = 4 /\ Len(returns) = 3
    /\ sleeps = 3

---------------------------------------------------------------------------
(* Properties of the batch run *)

\* the attempt at file k ended in a failure: extraction raised, or
\* summarize_text returned an error string
FileFailed(k) == file_results[k] \in {"raised", "error"}

\* C20: a file whose extraction raises, or whose summarization returns an
\* error string, does not stop the batch: while the run is not cancelled the
\* worker thread stays in the loop, every file before the current one has been
\* attempted whatever became of the earlier ones, the loop is left only when
\* every file has been attempted, and the run ends with the completion
\* report.
C20_FailedFileDoesNotStopBatch ==
    (app_pc # "none" /\ ~cancelled) =>
        /\ app_pc \in {"loop", "extract", "summarize", "report", "finally",
                       "ended"}
        /\ file_i <= Len(pdf_files)
        /\ Len(file_results) = file_i
        /\ \A k \in 1..Len(file_results) :
              pdf_files[k].raises <=> file_results[k] = "raised"
        /\ app_pc \in {"report", "finally", "ended"} =>
              file_i = Len(pdf_files)
        /\ app_pc \in {"finally", "ended"} =>
              final_msg = FinalMsg(processed_count, error_count)
        /\ app_pc \in {"loop", "extract", "summarize", "report"} =>
              final_msg = <<>>

\* a run of three files has ended with the report: extraction of the first
\* raised, the summary of the second was an error string, the third was
\* summarized
C20_Witness ==
    /\ app_pc = "ended" /\ ~cancelled
    /\ file_results = <<"raised", "error", "ok">>
    /\ FileFailed(1) /\ FileFailed(2)
    /\ final_msg = FinalMsg(1, 2)

\* C21: at most one worker thread processes documents at any time: while
\* the running flag is set exactly one worker is alive; a step taken while
\* the flag is set starts no worker, and a call of run_task while the flag is
\* set changes nothing; a worker is started only when the flag is clear and
\* no worker is alive.
C21_AtMostOneWorker ==
    /\ [](/\ workers \in {0, 1}
          /\ workers = 1 <=> WorkerAlive
          /\ running => workers = 1)
    /\ [][/\ running => workers' <= workers
          /\ workers' > workers =>
                (~running /\ workers = 0 /\ workers' = 1 /\ running')]_vars

\* the worker is summarizing the second file of a run: the flag is set and
\* one worker is alive
C21_Witness ==
    /\ running /\ window
    /\ workers = 1
    /\ app_pc = "summarize" /\ pc = "chunk_wait"
    /\ file_i = 1

---------------------------------------------------------------------------
(* C22 *)

\* the settings file holds an api_key entry
HoldsApiKey(file) == "api_key" \in DOMAIN file.data

\* C22: the API key is never persisted.  Every write to the settings file,
\* by save_config, update_config, add_recent_folder or run_task, leaves a
\* file without an api_key entry, also when the key is held in memory; every
\* such call on a writable file leaves a JSON object without the entry; and
\* the settings loaded from any file have an empty api_key.
C22_ApiKeyNeverPersisted ==
    /\ [](cfg_op = "load_config" => config["api_key"] = "")
    /\ [][config_file' # config_file => ~HoldsApiKey(config_file')]_vars
    /\ [][(/\ cfg_op' \in {"save_config", "run_task"}
           /\ config_file.writable)
             => (config_file'.kind = "object" /\ ~HoldsApiKey(config_file'))]_vars

\* the key is held in memory, the settings were saved after that and the
\* file holds every setting but the key
C22_Witness ==
    /\ cfg_op = "save_config"
    /\ config["api_key"] = "sk"
    /\ config["folder_path"] = "d2"
    /\ config_file.kind = "object"
    /\ DOMAIN config_file.data = ConfigKeys \ {"api_key"}
    /\ config_file.data["folder_path"] = "d2"

---------------------------------------------------------------------------
(* C23 *)

\* how often the page q occurs in the list l
Occurrences(l, q) == Cardinality({i \in DOMAIN l : l[i] = q})

\* C23: when the page selection has ended, with the selector None every
\* page 0 .. num_pages-1 was loaded for OCR, once and in order; with a list
\* as selector each listed page in range 0 .. num_pages-1 was loaded as often
\* as it is listed and no other page was; with the empty list no page was;
\* and in a batch run with OCR disabled no page was, whatever the 'all
\* pages' box and the page list typed in are.
C23_OcrPageSelection ==
    ocr_pc = "done" =>
        /\ pages_to_ocr_arg.none =>
              /\ Len(ocr_visited) = num_pages
              /\ \A i \in 1..num_pages : ocr_visited[i] = i - 1
        /\ ~pages_to_ocr_arg.none =>
              \A q \in (0 - 1)..(MaxPages + 1) :
                  Occurrences(ocr_visited, q) =
                      IF 0 <= q /\ q <= num_pages - 1
                      THEN Occurrences(pages_to_ocr_arg.pages, q)
                      ELSE 0
        /\ (~pages_to_ocr_arg.none /\ pages_to_ocr_arg.pages = <<>>) =>
              ocr_visited = <<>>
        /\ (ocr_entry = "run_task" /\ ~ocr_enabled) => ocr_visited = <<>>

\* a list that names a page beyond the last one and a page of the document:
\* only the latter was loaded
C23_Witness ==
    /\ ocr_pc = "done"
    /\ num_pages = 2
    /\ pages_to_ocr_arg = ListSelector(<<2, 1>>)
    /\ ocr_visited = <<1>>

---------------------------------------------------------------------------
(* C24 *)

\* the positions strictly after the cursor at which a sentence separator,
\* punctuation followed by a blank or a newline, lies inside the window of
\* the last iteration
SeparatorPositions ==
    {p \in (prev_pos + 1)..(EndPos(text, prev_pos) - 2) :
        /\ text[p + 1] \in {".", "!", "?"}
        /\ text[p + 2] \in {" ", "\n"}}

\* C24: when the window holds no page marker and no paragraph break after
\* the cursor but holds a sentence separator that begins strictly after the
\* cursor, the cut is made immediately after the punctuation of the
\* right-most such separator, and the chunk cut there ends with that
\* punctuation.
C24_CutAfterLastSentence ==
    (/\ CutSearched
     /\ ~(LastPageMarker > prev_pos)
     /\ ~(LastParaBreak > prev_pos)
     /\ SeparatorPositions # {}) =>
        LET last == SetMax(SeparatorPositions)
            chunk == Strip(Slice(text, NaturalSlice[1], NaturalSlice[2]))
        IN  /\ NaturalSlice = <<prev_pos, last + 1>>
            /\ chunk # <<>>
            /\ chunk[Len(chunk)] = text[last + 1]
            /\ \E k \in 1..Len(chunks) : chunks[k] = chunk

\* a window with two kinds of separator, the right-most one of a kind the
\* loop tries later: the cut was made after the exclamation mark
C24_Witness ==
    /\ CutSearched
    /\ prev_pos = 0
    /\ text = <<".", ".", " ", "!", " ", ".">>
    /\ NaturalSlice = <<0, 4>>
    /\ chunks[1] = <<".", ".", " ", "!">>

---------------------------------------------------------------------------
(* C25 *)

\* C25: inside summarize_text the splitter never returns zero chunks and
\* the list of chunk summaries is never empty when the loop has ended: the
\* text handed to the splitter holds a non-whitespace token, the chunk
\* count is at least 1, every chunk leaves an entry in chunk_summaries, and
\* neither 'zero valid chunks' nor 'failed to get summaries for any chunk'
\* is ever returned.
C25_ChunksNeverEmpty ==
    /\ (split_pc \in {"entry", "loop", "filter", "returned"} /\ pc # "off") =>
           ~NoText(text)
    /\ (split_pc = "returned" /\ ~NoText(text)) => Len(chunks) >= 1
    /\ pc = "combine" =>
           (chunk_summaries # <<>> /\ Len(chunk_summaries) = Len(chunks))
    /\ returned =>
           /\ result #
                 Err("Text resulted in zero valid chunks after splitting.", <<>>)
           /\ result # Err("Failed to get summaries for any chunk.", <<>>)

\* a text longer than a chunk whose only non-whitespace token is its last
\* one was split into one chunk and summarized
C25_Witness ==
    /\ returned
    /\ LongText
    /\ Len(Strip(text)) = 1
    /\ text[1] \in Whitespace
    /\ text[Len(text)] = "a"
    /\ Len(chunks) = 1
    /\ ~StartsWith(result, ErrorPrefix)

---------------------------------------------------------------------------
(* C26 *)

\* the messages of lines 265, 271, 274, 284, 309 and 312
SplittingMessage == <<"Splitting text into chunks...">>

ChunkCountMessage(n) == <<"Text split into", " ", ToString(n), " ", "chunk(s).">>

SingleChunkMessage == <<"Summarizing single chunk...">>

ChunkMessage(i, n) ==
    <<"Summarizing chunk", " ", ToString(i), "/", ToString(n), "...">>

SkippedMessage ==
    <<"Combined summaries too long or errors occurred. Returning combined summaries.">>

SynthesisMessage == <<"Combining chunk summaries for final result...">>

\* the terminal message for the result r
TerminalMessage(ok_message, r) ==
    IF r # <<>> /\ r[1] = "Error:" THEN r ELSE <<ok_message>>

\* the messages up to and including 'chunk k/n'
MessagesUpToChunk(k, n) ==
    <<SplittingMessage, ChunkCountMessage(n)>>
        \o [i \in 1..k |-> ChunkMessage(i, n)]

\* C26: with a callback supplied the messages are handed over in this order
\* and at these points: the splitting message before the splitter runs; the
\* chunk count when it has returned; 'chunk i/N' in the step that issues
\* the request for chunk i, taken when every earlier request has returned,
\* so that while request i is in flight the last message is 'chunk i/N';
\* after the last chunk either the synthesis-skipped message, with no
\* further request, or the synthesis-starting message with the synthesis
\* request; and, as the last message before a single-chunk or synthesized
\* result is returned, a terminal message for that result.
C26_CallbackMilestones ==
    /\ [](has_callback =>
          LET n == Len(chunks)
          IN  /\ pc = "entry" => status_log = <<>>
              /\ pc = "splitting" => status_log = <<SplittingMessage>>
              /\ pc = "dispatch" =>
                    status_log = <<SplittingMessage, ChunkCountMessage(n)>>
              /\ pc = "single_wait" =>
                    status_log = <<SplittingMessage, ChunkCountMessage(1),
                                   SingleChunkMessage>>
              /\ pc \in {"chunk_call", "chunk_wait", "sleep", "combine"} =>
                    /\ Len(calls) <= n
                    /\ status_log = MessagesUpToChunk(Len(calls), n)
              /\ pc = "synth_wait" =>
                    /\ Len(calls) = n + 1
                    /\ status_log =
                          Append(MessagesUpToChunk(n, n), SynthesisMessage)
              /\ (returned /\ split_pc = "returned" /\ n = 1) =>
                    status_log =
                        <<SplittingMessage, ChunkCountMessage(1),
                          SingleChunkMessage,
                          TerminalMessage("Summary received.", result)>>
              /\ (returned /\ split_pc = "returned" /\ n > 1
                    /\ Len(calls) = n) =>
                    status_log =
                        Append(MessagesUpToChunk(n, n), SkippedMessage)
              /\ (returned /\ split_pc = "returned" /\ n > 1
                    /\ Len(calls) = n + 1) =>
                    status_log =
                        MessagesUpToChunk(n, n)
                            \o <<SynthesisMessage,
                                 TerminalMessage("Final summary received.",
                                                 result)>>)
    /\ [][(has_callback /\ Len(calls') > Len(calls)) =>
              /\ Len(returns) = Len(calls)
              /\ Len(calls') = Len(calls) + 1
              /\ Len(status_log') = Len(status_log) + 1]_vars
    /\ [][(has_callback /\ status_log' # status_log) =>
              /\ Len(status_log') = Len(status_log) + 1
              /\ SubSeq(status_log', 1, Len(status_log)) = status_log]_vars

\* three chunks were summarized and synthesized with a callback supplied
C26_Witness ==
    /\ has_callback
    /\ returned
    /\ Len(chunks) = 3
    /\ Len(calls) = 4
    /\ Len(status_log) = 7
    /\ status_log[5] = ChunkMessage(3, 3)
    /\ status_log[7] = <<"Final summary received.">>

---------------------------------------------------------------------------
(* C27 *)

\* the worker ended, by the exit of the process or by an exception, inside
\* the attempt at a document
DiedInsideDocument ==
    /\ app_pc \in {"crashed", "killed"}
    /\ died_at \in {"extract", "summarize"}

---------------------------------------------------------------------------
(* C28 *)

\* the last request got no successful response with usable content
LastCallFailed ==
    ~(last_outcome.kind = "content" /\ Strip(last_outcome.content) # <<>>)

\* the invocation returned the combined summaries without a synthesis request
SynthesisSkipped ==
    /\ pc = "done" /\ returned
    /\ split_pc = "returned" /\ NumChunks >= 2
    /\ Len(calls) = NumChunks

\* C28: a multi-chunk result returned with synthesis skipped never begins
\* with 'Error:', also when every chunk request failed; a result that
\* begins with 'Error:' comes only from a text that is empty or blank, from
\* a single-chunk run whose request failed, or from a run whose synthesis
\* request failed.
C28_ErrorPrefixOnlyOnFailure ==
    /\ SynthesisSkipped => ~StartsWith(result, ErrorPrefix)
    /\ (pc = "done" /\ returned /\ StartsWith(result, ErrorPrefix)) =>
          \/ NoText(text)
          \/ /\ split_pc = "returned" /\ NumChunks = 1
             /\ LastCallFailed
          \/ /\ split_pc = "returned" /\ NumChunks >= 2
             /\ Len(calls) = NumChunks + 1
             /\ LastCallFailed

---------------------------------------------------------------------------
(* C29 *)

\* C29: once a worker has been started the running flag is eventually
\* cleared; the worker clears it before it ends, whether the batch
\* completed, files raised, or an error escaped the loop over the files;
\* and once the worker has ended a new run is accepted.
C29_RunningEventuallyCleared ==
    /\ running ~> ~running
    /\ [][(WorkerAlive /\ ~WorkerAlive') => ~running']_vars
    /\ [](app_pc \in {"ended", "crashed", "killed"} =>
             (~running /\ StartAllowed(running)))

\* a batch whose first file raised has ended with its report, the flag is
\* clear and the window still exists
C29_Witness ==
    /\ app_pc = "ended"
    /\ ~running /\ window
    /\ Len(pdf_files) = 2
    /\ file_results = <<"raised", "ok">>
    /\ final_msg = FinalMsg(1, 1)

---------------------------------------------------------------------------
(* C30 *)

\* the number of attempts that ended in one of the given ways
Counted(ways) ==
    Cardinality({k \in 1..Len(file_results) : file_results[k] \in ways})

\* C30: in a batch that is not cancelled the files are attempted one by one
\* in list order, each exactly once: the attempt at file k is the k-th to
\* end, extraction that raises is counted as an error, a file without text
\* is skipped and counted neither as processed nor as an error, and a file
\* that was summarized is counted as processed or as an error, never both;
\* every step that ends an attempt ends exactly one; and once the loop has
\* been left the processed, error and skipped files add up to the number of
\* files.
C30_EachFileCountedOnce ==
    /\ []((app_pc # "none" /\ ~cancelled) =>
          /\ Len(file_results) = file_i
          /\ file_i <= Len(pdf_files)
          /\ app_pc \in {"extract", "summarize"} => file_i < Len(pdf_files)
          /\ app_pc = "summarize" =>
                (pc # "off" /\ text = pdf_files[file_i + 1].text)
          /\ \A k \in 1..Len(file_results) :
                /\ file_results[k] = "raised" <=> pdf_files[k].raises
                /\ file_results[k] = "no_text" <=>
                      (~pdf_files[k].raises /\ NoText(pdf_files[k].text))
          /\ processed_count = Counted({"ok"})
          /\ error_count = Counted({"error", "raised"})
          /\ processed_count + error_count + Counted({"no_text"}) = file_i
          /\ app_pc \in {"report", "finally", "ended"} =>
                processed_count + error_count + Counted({"no_text"})
                    = Len(pdf_files))
    /\ [][(~cancelled' /\ file_i' # file_i) =>
              \/ /\ file_i' = file_i + 1
                 /\ Len(file_results') = Len(file_results) + 1
                 /\ SubSeq(file_results', 1, Len(file_results)) = file_results
                 /\ pdf_files' = pdf_files
              \/ /\ file_i' = 0 /\ file_results' = <<>>
                 /\ ~WorkerAlive /\ app_pc' = "loop"]_vars

\* a batch of three files has ended: the first had no text, the summary of
\* the second was an error string, the third was summarized
C30_Witness ==
    /\ app_pc = "ended" /\ ~cancelled
    /\ file_results = <<"no_text", "error", "ok">>
    /\ processed_count = 1 /\ error_count = 1
    /\ Counted({"no_text"}) = 1

====
